---- MODULE Spec2Model ----
(***************************************************************************)
(* A model of the generation engine of quilt-tessalator:                  *)
(*   src/lib/tessellation.ts  (layout, colour assignment, seam allowance)  *)
(*   src/lib/geometry.ts      (createRectangle, splitRectangle,            *)
(*                             offsetPolygon, calculateBounds)             *)
(*                                                                         *)
(* JavaScript numbers are modelled as exact rationals <<n, d>> extended    *)
(* with the non-finite values the code can produce by dividing by zero:    *)
(* <<1,0>> is +Infinity, <<-1,0>> is -Infinity and <<0,0>> is NaN.  The    *)
(* rounding of IEEE-754 doubles is not modelled.  Math.random() is a       *)
(* nondeterministic choice from RandomValues, a finite subset of [0,1).    *)
(***************************************************************************)
EXTENDS Integers, Sequences, FiniteSets, TLC

VARIABLES
    config,       \* the TessellationConfig of the run
    pc,           \* position inside generateTessellation / the function under test
    widths,       \* widths[row][col]           (tessellation.ts:12)
    heights,      \* heights[row]               (tessellation.ts:18)
    row, col,     \* loop counters of STEP 2    (tessellation.ts:26,31)
    cumulativeX,  \* tessellation.ts:27
    cumulativeY,  \* tessellation.ts:24
    pieceCol,     \* tessellation.ts:29
    pieces,       \* the piece list             (tessellation.ts:21)
    i,            \* loop counter of assignColorsToPolygons (tessellation.ts:111)
    bounds,       \* result.bounds              (tessellation.ts:91)
    arg,          \* the argument record of a function under test
    ret           \* the value that function returned

vars == <<config, pc, widths, heights, row, col, cumulativeX, cumulativeY,
          pieceCol, pieces, i, bounds, arg, ret>>

tessVars == <<config, widths, heights, row, col, cumulativeX, cumulativeY,
              pieceCol, pieces, i, bounds>>

(***************************************************************************)
(* Bounds of the model.                                                    *)
(***************************************************************************)
MaxRows == 2
MaxCols == 3
MaxCells == 4
MaxColors == 3
MaxLayoutDraws == 4

(***************************************************************************)
(* JavaScript number arithmetic on extended rationals.                     *)
(***************************************************************************)
RECURSIVE GCD(_, _)
GCD(a, b) == IF b = 0 THEN a ELSE GCD(b, a % b)

Abs(n) == IF n < 0 THEN -n ELSE n

Sign(n) == IF n > 0 THEN 1 ELSE IF n < 0 THEN -1 ELSE 0

Norm(n, d) ==
    IF d = 0 THEN <<Sign(n), 0>>
    ELSE LET g == GCD(Abs(n), Abs(d))
             s == IF d < 0 THEN -1 ELSE 1
         IN  <<s * (n \div g), s * (d \div g)>>

R(n) == <<n, 1>>
Frac(n, d) == Norm(n, d)
NaN == <<0, 0>>
Infinity == <<1, 0>>
NegInfinity == <<-1, 0>>

IsFinite(a) == a[2] # 0
IsNaN(a) == a = NaN

RAdd(a, b) ==
    IF IsFinite(a) /\ IsFinite(b)
    THEN LET g == GCD(a[2], b[2])
         IN  Norm(a[1] * (b[2] \div g) + b[1] * (a[2] \div g), (a[2] \div g) * b[2])
    ELSE IF IsFinite(a) THEN b
    ELSE IF IsFinite(b) THEN a
    ELSE IF a = b THEN a ELSE NaN

RNeg(a) == <<-a[1], a[2]>>

RSub(a, b) == RAdd(a, RNeg(b))

RMul(a, b) ==
    IF IsFinite(a) /\ IsFinite(b)
    THEN LET g == GCD(Abs(a[1]), b[2])
             h == GCD(Abs(b[1]), a[2])
         IN  Norm((a[1] \div g) * (b[1] \div h), (a[2] \div h) * (b[2] \div g))
    ELSE Norm(a[1] * b[1], a[2] * b[2])

RDiv(a, b) ==
    IF IsFinite(a) /\ IsFinite(b) /\ b[1] # 0
    THEN RMul(a, Norm(b[2], b[1]))
    ELSE Norm(a[1] * b[2], a[2] * b[1])

\* a < b; every comparison with NaN is false
RLt(a, b) ==
    IF IsNaN(a) \/ IsNaN(b) THEN FALSE
    ELSE IF IsFinite(a) /\ IsFinite(b)
    THEN LET g == GCD(a[2], b[2])
         IN  a[1] * (b[2] \div g) < b[1] * (a[2] \div g)
    ELSE IF a = b THEN FALSE
    ELSE a = NegInfinity \/ b = Infinity

RLe(a, b) == RLt(a, b) \/ (~IsNaN(a) /\ a = b)

RGt(a, b) == RLt(b, a)

RAbs(a) == <<Abs(a[1]), a[2]>>

\* Math.min / Math.max: NaN if either argument is NaN
RMin(a, b) == IF IsNaN(a) \/ IsNaN(b) THEN NaN ELSE IF RLt(b, a) THEN b ELSE a

RMax(a, b) == IF IsNaN(a) \/ IsNaN(b) THEN NaN ELSE IF RLt(a, b) THEN b ELSE a

\* Math.floor of a finite number, as an integer
Floor(a) == a[1] \div a[2]

RECURSIVE SumSeq(_)
SumSeq(s) == IF s = <<>> THEN R(0) ELSE RAdd(SumSeq(SubSeq(s, 1, Len(s) - 1)), s[Len(s)])

RECURSIVE isqrtIn(_, _, _)
isqrtIn(n, lo, hi) ==
    IF lo >= hi THEN lo
    ELSE LET mid == (lo + hi + 1) \div 2
         IN  IF mid * mid <= n THEN isqrtIn(n, mid, hi) ELSE isqrtIn(n, lo, mid - 1)

\* The largest integer whose square is at most n
ISqrt(n) == isqrtIn(n, 0, IF n < 46340 THEN n ELSE 46340)

\* Math.sqrt: exact where the root is rational, otherwise rounded down to a
\* multiple of 1/1000 (of 1/10, of 1 for larger numerators)
RSqrt(a) ==
    IF IsNaN(a) \/ a = NegInfinity \/ a[1] < 0 THEN NaN
    ELSE IF ~IsFinite(a) THEN Infinity
    ELSE LET sn == ISqrt(a[1])
             sd == ISqrt(a[2])
         IN  IF sn * sn = a[1] /\ sd * sd = a[2] THEN <<sn, sd>>
             ELSE IF a[1] < 2000 THEN Frac(ISqrt((a[1] * 1000000) \div a[2]), 1000)
             ELSE IF a[1] < 20000000 THEN Frac(ISqrt((a[1] * 100) \div a[2]), 10)
             ELSE R(ISqrt(a[1] \div a[2]))

(***************************************************************************)
(* The random source: the values Math.random() may return, all in [0,1).   *)
(***************************************************************************)
RandomValues == {Frac(0, 1), Frac(3, 4)}

DrawSeqs(n) == [1..n -> RandomValues]

(***************************************************************************)
(* geometry.ts                                                             *)
(***************************************************************************)
Pt(x, y) == [x |-> x, y |-> y]

\* geometry.ts:182  [top-left, top-right, bottom-right, bottom-left]
createRectangle(x, y, width, height) ==
    << Pt(x, y),
       Pt(RAdd(x, width), y),
       Pt(RAdd(x, width), RAdd(y, height)),
       Pt(x, RAdd(y, height)) >>

\* Math.max(0.1, Math.min(0.9, t))       (geometry.ts:235,242)
clampCut(t) == RMax(Frac(1, 10), RMin(Frac(9, 10), t))

\* The number of Math.random() calls one splitRectangle call makes
splitDraws(angleVariation) == IF angleVariation = R(0) THEN 1 ELSE 2

\* splitTriangles whose second case pairs the top triangle of one diagonal with
\* the bottom triangle of the other
splitTrianglesMixedDiagonals(rect, r) ==
    LET tl == rect[1]
        tr == rect[2]
        br == rect[3]
        bl == rect[4]
    IN  IF RLt(r, Frac(1, 2))
        THEN << <<tl, tr, br>>, <<tl, br, bl>> >>
        ELSE << <<tl, tr, bl>>, <<tl, br, bl>> >>

\* The diagonal split; r is the value of Math.random()     (geometry.ts:212-226)
splitTriangles(rect, r) ==
    LET tl == rect[1]
        tr == rect[2]
        br == rect[3]
        bl == rect[4]
    IN  IF RLt(r, Frac(1, 2))
        THEN << <<tl, tr, br>>, <<tl, br, bl>> >>
        ELSE << <<tl, tr, bl>>, <<tr, br, bl>> >>

\* cutPosition with the deviation neither scaled by 0.8 nor clamped
cutPositionUnscaled(angleVariation, r) ==
    RAdd(Frac(1, 2), RMul(RSub(r, Frac(1, 2)), angleVariation))

\* 0.5 + (Math.random() - 0.5) * maxDeviation, clamped     (geometry.ts:230-242)
cutPosition(angleVariation, r) ==
    clampCut(RAdd(Frac(1, 2), RMul(RSub(r, Frac(1, 2)), RMul(angleVariation, Frac(4, 5)))))

\* splitQuads with the right-hand quadrilateral closed at the bottom-left
\* corner instead of the bottom cut point
splitQuadsRightToCorner(rect, angleVariation, draws) ==
    LET tl == rect[1]
        tr == rect[2]
        br == rect[3]
        bl == rect[4]
        width == RSub(tr.x, tl.x)
        topPoint == Pt(RAdd(tl.x, RMul(width, cutPosition(angleVariation, draws[1]))), tl.y)
        bottomPoint == Pt(RAdd(bl.x, RMul(width, cutPosition(angleVariation, draws[2]))), bl.y)
    IN  << <<tl, topPoint, bottomPoint, bl>>, <<topPoint, tr, br, bl>> >>

\* The angled split; draws are the values of its two Math.random() calls
\* (geometry.ts:228-250)
splitQuads(rect, angleVariation, draws) ==
    LET tl == rect[1]
        tr == rect[2]
        br == rect[3]
        bl == rect[4]
        width == RSub(tr.x, tl.x)
        topPoint == Pt(RAdd(tl.x, RMul(width, cutPosition(angleVariation, draws[1]))), tl.y)
        bottomPoint == Pt(RAdd(bl.x, RMul(width, cutPosition(angleVariation, draws[2]))), bl.y)
    IN  << <<tl, topPoint, bottomPoint, bl>>, <<topPoint, tr, br, bottomPoint>> >>

\* splitRectangle cutting along a diagonal whatever angleVariation is
splitRectangleAlongDiagonal(rect, angleVariation, draws) == splitTriangles(rect, draws[1])

\* geometry.ts:203; draws are the values of its Math.random() calls, in order
splitRectangle(rect, angleVariation, draws) ==
    IF angleVariation = R(0) THEN splitTriangles(rect, draws[1])
    ELSE splitQuads(rect, angleVariation, draws)

\* The shoelace sum of geometry.ts:278-283 and packing.ts:224-231
RECURSIVE shoelace(_, _)
shoelace(polygon, k) ==
    IF k = 0 THEN R(0)
    ELSE LET n == Len(polygon)
             j == (k % n) + 1
         IN  RSub(RAdd(shoelace(polygon, k - 1),
                       RMul(polygon[k].x, polygon[j].y)),
                  RMul(polygon[j].x, polygon[k].y))

\* packing.ts:223
calculatePolygonArea(polygon) ==
    RAbs(RDiv(shoelace(polygon, Len(polygon)), R(2)))

\* isClockwise for an engine that takes the winding of createRectangle for granted
isClockwiseAssumed(polygon) == FALSE

\* const isClockwise = area < 0          (geometry.ts:278-284)
isClockwise(polygon) == RLt(shoelace(polygon, Len(polygon)), R(0))

\* a rounded down to a multiple of 1/100, or to an integer if it is large
rounded(a) ==
    LET whole == a[1] \div a[2]
    IN  IF Abs(whole) >= 300 THEN R(whole)
        ELSE Frac(whole * 100 + ((a[1] % a[2]) \div ((a[2] + 99) \div 100)), 100)

\* v.x * v.x + v.y * v.y: exact if the sum of the two fractions can be formed
\* exactly, otherwise the sum of the squares of the rounded components
sumOfSquares(v) ==
    IF ~IsFinite(v.x) \/ ~IsFinite(v.y)
    THEN RAdd(RMul(v.x, v.x), RMul(v.y, v.y))
    ELSE LET g == GCD(v.x[2], v.y[2])
             mx == v.y[2] \div g
             my == v.x[2] \div g
         IN  IF /\ Abs(v.x[1]) <= 32767 \div mx
                /\ Abs(v.y[1]) <= 32767 \div my
                /\ v.x[2] <= 46340 \div mx
             THEN RAdd(RMul(v.x, v.x), RMul(v.y, v.y))
             ELSE RAdd(RMul(rounded(v.x), rounded(v.x)), RMul(rounded(v.y), rounded(v.y)))

\* Math.sqrt(v.x * v.x + v.y * v.y)      (geometry.ts:297-298,353-356)
vecLen(v) == RSqrt(sumOfSquares(v))

vecSub(a, b) == Pt(RSub(a.x, b.x), RSub(a.y, b.y))

\* edge.x /= len; edge.y /= len           (geometry.ts:305-308)
unitVec(e, len) == Pt(RDiv(e.x, len), RDiv(e.y, len))

\* outwardPerp with the two rotations exchanged
outwardPerpExchanged(cw, edge) ==
    IF cw THEN Pt(edge.y, RNeg(edge.x)) ELSE Pt(RNeg(edge.y), edge.x)

\* The perpendicular of a unit edge that points away from the interior
\* (geometry.ts:313-320)
outwardPerp(cw, edge) ==
    IF cw THEN Pt(RNeg(edge.y), edge.x) ELSE Pt(edge.y, RNeg(edge.x))

\* p + perp * offset                      (geometry.ts:327-330)
shifted(p, perp, offset) ==
    Pt(RAdd(p.x, RMul(perp.x, offset)), RAdd(p.y, RMul(perp.y, offset)))

\* d1.x * d2.y - d1.y * d2.x              (geometry.ts:339)
cross(d1, d2) == RSub(RMul(d1.x, d2.y), RMul(d1.y, d2.x))

\* The intersection of the offset edges p1-p2 and p3-p4   (geometry.ts:335-351)
miterPoint(p1, p2, p3, p4) ==
    LET d1 == vecSub(p2, p1)
        d2 == vecSub(p4, p3)
        t == RDiv(cross(vecSub(p3, p1), d2), cross(d1, d2))
    IN  Pt(RAdd(p1.x, RMul(t, d1.x)), RAdd(p1.y, RMul(t, d1.y)))

\* joinPoints without the limit on the length of a miter
joinPointsUnlimited(curr, p1, p2, p3, p4, offset) ==
    IF RGt(RAbs(cross(vecSub(p2, p1), vecSub(p4, p3))), Frac(1, 10000))
    THEN <<miterPoint(p1, p2, p3, p4)>>
    ELSE << Pt(RDiv(RAdd(p2.x, p3.x), R(2)), RDiv(RAdd(p2.y, p3.y), R(2))) >>

\* The points one vertex adds to result, from the offset edges p1-p2 and p3-p4
\* (geometry.ts:341-371)
joinPoints(curr, p1, p2, p3, p4, offset) ==
    IF RGt(RAbs(cross(vecSub(p2, p1), vecSub(p4, p3))), Frac(1, 10000))
    THEN LET intersection == miterPoint(p1, p2, p3, p4)
         IN  IF RLe(vecLen(vecSub(intersection, curr)), RMul(offset, R(10)))
             THEN <<intersection>>
             ELSE <<p2, p3>>
    ELSE << Pt(RDiv(RAdd(p2.x, p3.x), R(2)), RDiv(RAdd(p2.y, p3.y), R(2))) >>

\* The points vertex curr adds to result, its edges being non-degenerate
\* (geometry.ts:305-371)
cornerPoints(prev, curr, next, cw, offset) ==
    LET perp1 == outwardPerp(cw, unitVec(vecSub(curr, prev), vecLen(vecSub(curr, prev))))
        perp2 == outwardPerp(cw, unitVec(vecSub(next, curr), vecLen(vecSub(next, curr))))
    IN  joinPoints(curr, shifted(prev, perp1, offset), shifted(curr, perp1, offset),
                   shifted(curr, perp2, offset), shifted(next, perp2, offset), offset)

\* The points vertex k (from 1) adds to result: one iteration of the loop of
\* geometry.ts:287-372
offsetVertex(polygon, offset, k) ==
    LET n == Len(polygon)
        curr == polygon[k]
        next == polygon[(k % n) + 1]
        prev == polygon[((k + n - 2) % n) + 1]
    IN  IF \/ RLt(vecLen(vecSub(curr, prev)), Frac(1, 10000))
           \/ RLt(vecLen(vecSub(next, curr)), Frac(1, 10000))
        THEN <<>>
        ELSE cornerPoints(prev, curr, next, isClockwise(polygon), offset)

\* offsetUpTo giving up the whole polygon if one of its vertices is skipped
RECURSIVE offsetUpToAborting(_, _, _)
offsetUpToAborting(polygon, offset, k) ==
    IF k = 0 \/ \E j \in 1..Len(polygon) : offsetVertex(polygon, offset, j) = <<>>
    THEN <<>>
    ELSE offsetUpToAborting(polygon, offset, k - 1) \o offsetVertex(polygon, offset, k)

\* The loop over the vertices             (geometry.ts:287-372)
RECURSIVE offsetUpTo(_, _, _)
offsetUpTo(polygon, offset, k) ==
    IF k = 0 THEN <<>>
    ELSE offsetUpTo(polygon, offset, k - 1) \o offsetVertex(polygon, offset, k)

\* offsetPolygon without the early return for a zero offset
offsetPolygonNoEarlyReturn(polygon, offset) == offsetUpTo(polygon, offset, Len(polygon))

\* geometry.ts:268
offsetPolygon(polygon, offset) ==
    IF offset = R(0) THEN polygon
    ELSE offsetUpTo(polygon, offset, Len(polygon))

\* All vertices of a list of polygons, as a set
allPoints(polygons) ==
    UNION {{polygons[p][q] : q \in 1..Len(polygons[p])} : p \in 1..Len(polygons)}

RECURSIVE foldMin(_, _)
foldMin(S, acc) ==
    IF S = {} THEN acc
    ELSE LET v == CHOOSE v \in S : TRUE IN foldMin(S \ {v}, RMin(acc, v))

RECURSIVE foldMax(_, _)
foldMax(S, acc) ==
    IF S = {} THEN acc
    ELSE LET v == CHOOSE v \in S : TRUE IN foldMax(S \ {v}, RMax(acc, v))

\* geometry.ts:381
calculateBounds(polygons) ==
    LET P == allPoints(polygons)
    IN  [minX |-> foldMin({p.x : p \in P}, Infinity),
         minY |-> foldMin({p.y : p \in P}, Infinity),
         maxX |-> foldMax({p.x : p \in P}, NegInfinity),
         maxY |-> foldMax({p.y : p \in P}, NegInfinity)]

(***************************************************************************)
(* tessellation.ts                                                         *)
(***************************************************************************)
\* const tolerance = 0.01                 (tessellation.ts:184)
tolerance == Frac(1, 100)

\* tessellation.ts:187
\* samePoint comparing the differences without Math.abs
samePointSigned(p1, p2) ==
    /\ RLt(RSub(p1.x, p2.x), tolerance)
    /\ RLt(RSub(p1.y, p2.y), tolerance)

samePoint(p1, p2) ==
    /\ RLt(RAbs(RSub(p1.x, p2.x)), tolerance)
    /\ RLt(RAbs(RSub(p1.y, p2.y)), tolerance)

\* tessellation.ts:192-200
sharedPoints(poly1, poly2) ==
    Cardinality({a \in 1..Len(poly1) :
                    \E b \in 1..Len(poly2) : samePoint(poly1[a], poly2[b])})

\* tessellation.ts:183
sharesEdge(poly1, poly2) == sharedPoints(poly1, poly2) >= 2

\* The number of Math.random() calls of generateRowWidths / generateRowHeights
variationDraws(n, variation) == IF variation = R(0) THEN 0 ELSE n

\* 1 + (Math.random() * 2 - 1) * variation      (tessellation.ts:221,247)
variationFactor(r, variation) ==
    RAdd(R(1), RMul(RSub(RMul(r, R(2)), R(1)), variation))

\* tessellation.ts:210
generateRowWidths(cols, baseSize, variation, draws) ==
    IF variation = R(0) THEN [k \in 1..cols |-> baseSize]
    ELSE LET targetTotal == RMul(R(cols), baseSize)
             raw == [k \in 1..cols |-> RMul(baseSize, variationFactor(draws[k], variation))]
             currentTotal == SumSeq(raw)
             scale == RDiv(targetTotal, currentTotal)
         IN  [k \in 1..cols |-> RMul(raw[k], scale)]

\* tessellation.ts:236
generateRowHeights(rows, baseSize, variation, draws) ==
    IF variation = R(0) THEN [k \in 1..rows |-> baseSize]
    ELSE LET targetTotal == RMul(R(rows), baseSize)
             raw == [k \in 1..rows |-> RMul(baseSize, variationFactor(draws[k], variation))]
             currentTotal == SumSeq(raw)
             scale == RDiv(targetTotal, currentTotal)
         IN  [k \in 1..rows |-> RMul(raw[k], scale)]

\* colorProbabilities[c] || 0            (tessellation.ts:154)
weightOf(colorProbabilities, c) ==
    IF c + 1 \in DOMAIN colorProbabilities /\ ~IsNaN(colorProbabilities[c + 1])
    THEN colorProbabilities[c + 1] ELSE R(0)

\* The loop of tessellation.ts:168-173, from position k with the remaining random
RECURSIVE pickWeighted(_, _, _, _)
pickWeighted(availableColors, weights, random, k) ==
    IF k > Len(availableColors) THEN availableColors[Len(availableColors)]
    ELSE LET rest == RSub(random, weights[k])
         IN  IF RLe(rest, R(0)) THEN availableColors[k]
             ELSE pickWeighted(availableColors, weights, rest, k + 1)

\* tessellation.ts:152; r is the value of its one Math.random() call
weightedRandomColor(availableColors, colorProbabilities, r) ==
    LET weights == [k \in 1..Len(availableColors) |->
                       weightOf(colorProbabilities, availableColors[k])]
        totalWeight == SumSeq(weights)
    IN  IF totalWeight = R(0)
        THEN availableColors[Floor(RMul(r, R(Len(availableColors)))) + 1]
        ELSE pickWeighted(availableColors, weights, RMul(r, totalWeight), 1)

(***************************************************************************)
(* generateTessellation as a state machine: one action per loop iteration. *)
(***************************************************************************)
\* generateEqualProbabilities, the weights the app starts from  (App.tsx:38-43)
EqualProbabilities(n) ==
    LET base == Frac(10000 \div n, 100)
    IN  [k \in 1..n |-> IF k = n THEN RSub(R(100), RMul(base, R(n - 1))) ELSE base]

\* The largest number of Math.random() calls STEP 1 and STEP 2 make under c
layoutDraws(c) ==
    variationDraws(c.rows * c.cols, c.widthVariation)
    + variationDraws(c.rows, c.heightVariation)
    + (IF c.splitProbability = R(0) THEN 0
       ELSE c.rows * c.cols * (1 + splitDraws(c.splitAngleVariation)))

Configs ==
    {c \in [rows : 1..MaxRows,
            cols : 1..MaxCols,
            squareSize : {R(50)},
            colors : 2..MaxColors,
            splitProbability : {R(0), Frac(1, 2)},
            offsetAmount : {R(0), Frac(1, 2)},
            widthVariation : {R(0), R(1)},
            heightVariation : {R(0), R(1)},
            splitAngleVariation : {R(0), R(1)},
            sameColorProbability : {R(0), Frac(1, 2)},
            colorProbabilities : {EqualProbabilities(n) : n \in 2..MaxColors}] :
        /\ c.rows * c.cols <= MaxCells
        /\ layoutDraws(c) <= MaxLayoutDraws
        /\ Len(c.colorProbabilities) = c.colors
        /\ (c.splitProbability = R(0) => c.splitAngleVariation = R(0))}

NoBounds == [width |-> R(0), height |-> R(0)]

TessInit ==
    /\ config \in Configs
    /\ pc = "widths"
    /\ widths = <<>>
    /\ heights = <<>>
    /\ row = 0
    /\ col = 0
    /\ cumulativeX = R(0)
    /\ cumulativeY = R(0)
    /\ pieceCol = 0
    /\ pieces = <<>>
    /\ i = 0
    /\ bounds = NoBounds
    /\ arg = "none"
    /\ ret = "none"

\* STEP 1, one row, draws being the values Math.random() returns to it
\* (tessellation.ts:13-15)
RowWidthsWith(draws) ==
    /\ pc = "widths"
    /\ widths' = Append(widths, generateRowWidths(config.cols, config.squareSize,
                                                  config.widthVariation, draws))
    /\ pc' = IF Len(widths) + 1 = config.rows THEN "heights" ELSE "widths"
    /\ UNCHANGED <<config, heights, row, col, cumulativeX, cumulativeY, pieceCol,
                   pieces, i, bounds>>

RowWidths ==
    /\ \E draws \in DrawSeqs(variationDraws(config.cols, config.widthVariation)) :
          RowWidthsWith(draws)
    /\ UNCHANGED <<arg, ret>>

\* STEP 1b                                (tessellation.ts:18)
RowHeightsWith(draws) ==
    /\ pc = "heights"
    /\ heights' = generateRowHeights(config.rows, config.squareSize,
                                     config.heightVariation, draws)
    /\ pc' = "cells"
    /\ UNCHANGED <<config, widths, row, col, cumulativeX, cumulativeY, pieceCol,
                   pieces, i, bounds>>

RowHeights ==
    /\ \E draws \in DrawSeqs(variationDraws(config.rows, config.heightVariation)) :
          RowHeightsWith(draws)
    /\ UNCHANGED <<arg, ret>>

\* const offsetX = (row % 2) * offsetAmount * squareSize    (tessellation.ts:33)
offsetX == RMul(RMul(R(row % 2), config.offsetAmount), config.squareSize)

\* cellRect without the running x position
cellRectAtRowStart ==
    createRectangle(offsetX, cumulativeY, widths[row + 1][col + 1], heights[row + 1])

\* const rect = createRectangle(x, y, width, height)        (tessellation.ts:34-39)
cellRect ==
    createRectangle(RAdd(cumulativeX, offsetX), cumulativeY,
                    widths[row + 1][col + 1], heights[row + 1])

\* pieceId naming the cell only, without the position of the piece in it
pieceIdOfCell(r, c, suffix) == <<"r", r, "-c", c>>

\* pieceId taken from a counter of the pieces created so far, over all calls
pieceIdNumbered(r, c, suffix) ==
    <<"piece", (IF arg.run = 2 THEN Len(ret.pieces) ELSE 0) + Len(pieces), suffix>>

\* Template literal `r${row}-c${col}-${suffix}`              (tessellation.ts:45,55,65)
pieceId(r, c, suffix) == <<"r", r, "-c", c, "-", suffix>>

\* newPiece taking the grid column of the cell for col
newPieceAtGridCol(suffix, polygon, isTriangle, pCol, position) ==
    [id |-> pieceId(row, col, suffix),
     polygon |-> polygon,
     colorIndex |-> -1,
     isTriangle |-> isTriangle,
     row |-> row,
     col |-> col,
     position |-> position]

\* pieces.push({...})                      (tessellation.ts:44-72)
newPiece(suffix, polygon, isTriangle, pCol, position) ==
    [id |-> pieceId(row, col, suffix),
     polygon |-> polygon,
     colorIndex |-> -1,
     isTriangle |-> isTriangle,
     row |-> row,
     col |-> pCol,
     position |-> position]

\* nextCell leaving cumulativeY where it was at the end of a row
nextCellSameY ==
    IF col + 1 < config.cols
    THEN /\ col' = col + 1
         /\ cumulativeX' = RAdd(cumulativeX, widths[row + 1][col + 1])
         /\ UNCHANGED <<row, cumulativeY>>
         /\ pc' = "cells"
    ELSE /\ col' = 0
         /\ cumulativeX' = R(0)
         /\ row' = row + 1
         /\ cumulativeY' = cumulativeY
         /\ pc' = IF row + 1 < config.rows THEN "cells" ELSE "color"

\* The end of one iteration of the column loop, and of the row loop after the
\* last column                            (tessellation.ts:31,75-79)
nextCell ==
    IF col + 1 < config.cols
    THEN /\ col' = col + 1
         /\ cumulativeX' = RAdd(cumulativeX, widths[row + 1][col + 1])
         /\ UNCHANGED <<row, cumulativeY>>
         /\ pc' = "cells"
    ELSE /\ col' = 0
         /\ cumulativeX' = R(0)
         /\ row' = row + 1
         /\ cumulativeY' = RAdd(cumulativeY, heights[row + 1])
         /\ pc' = IF row + 1 < config.rows THEN "cells" ELSE "color"

\* shouldSplit is true: r is the draw of line 38, draws those of splitRectangle
\* (tessellation.ts:38-62)
SplitCellWith(r, draws) ==
    /\ pc = "cells"
    /\ RLt(r, config.splitProbability)
    /\ LET halves == splitRectangle(cellRect, config.splitAngleVariation, draws)
           tri == config.splitAngleVariation = R(0)
       IN  pieces' = pieces \o
               << newPiece("left", halves[1], tri, pieceCol, "top"),
                  newPiece("right", halves[2], tri, pieceCol + 1, "bottom") >>
    /\ pieceCol' = IF col + 1 < config.cols THEN pieceCol + 2 ELSE 0
    /\ nextCell
    /\ UNCHANGED <<config, widths, heights, i, bounds>>

SplitCell ==
    /\ \E r \in RandomValues :
          \E draws \in DrawSeqs(splitDraws(config.splitAngleVariation)) :
             SplitCellWith(r, draws)
    /\ UNCHANGED <<arg, ret>>

\* shouldSplit is false                   (tessellation.ts:38,63-73)
FullCellWith(r) ==
    /\ pc = "cells"
    /\ ~RLt(r, config.splitProbability)
    /\ pieces' = Append(pieces, newPiece("full", cellRect, FALSE, pieceCol, "full"))
    /\ pieceCol' = IF col + 1 < config.cols THEN pieceCol + 1 ELSE 0
    /\ nextCell
    /\ UNCHANGED <<config, widths, heights, i, bounds>>

FullCell ==
    /\ \E r \in RandomValues : FullCellWith(r)
    /\ UNCHANGED <<arg, ret>>

\* Indices j < i of coloured pieces that share an edge with piece i
\* (tessellation.ts:116-123); i counts from 0, the sequence from 1
adjacentBefore(k) ==
    {j \in 1..(k - 1) : /\ pieces[j].colorIndex # -1
                        /\ sharesEdge(pieces[k].polygon, pieces[j].polygon)}

\* forbiddenColors taking the colour of every earlier piece, adjacent or not
forbiddenColorsOfAllEarlier(k, fd) == {pieces[j].colorIndex : j \in 1..(k - 1)}

\* forbiddenColors after the inner loop, fd[j] being the Math.random() value
\* drawn for neighbour j                  (tessellation.ts:125-127)
forbiddenColors(k, fd) ==
    {pieces[j].colorIndex : j \in {a \in adjacentBefore(k) :
                                      RGt(fd[a], config.sameColorProbability)}}

\* availableColors, ascending             (tessellation.ts:132-137)
RECURSIVE availableFrom(_, _, _)
availableFrom(c, numColors, forbidden) ==
    IF c >= numColors THEN <<>>
    ELSE IF c \in forbidden THEN availableFrom(c + 1, numColors, forbidden)
    ELSE <<c>> \o availableFrom(c + 1, numColors, forbidden)

availableColors(numColors, forbidden) == availableFrom(0, numColors, forbidden)

\* fallbackColor with Math.round in place of Math.floor
fallbackColorRounded(numColors, r) == Floor(RAdd(RMul(r, R(numColors)), Frac(1, 2)))

\* Math.floor(Math.random() * numColors)  (tessellation.ts:144)
fallbackColor(numColors, r) == Floor(RMul(r, R(numColors)))

\* setColor writing to the piece before the current one
setColorOfPrevious(k, c) == [pieces EXCEPT ![IF k > 1 THEN k - 1 ELSE k].colorIndex = c]

\* piece.colorIndex = ...                 (tessellation.ts:141,144)
setColor(k, c) == [pieces EXCEPT ![k].colorIndex = c]

\* One iteration of the outer loop, availableColors.length > 0: fd[j] is the
\* draw of line 125 for neighbour j, r the draw of weightedRandomColor
\* (tessellation.ts:111-141)
AssignColorWith(fd, r) ==
    /\ pc = "color"
    /\ i < Len(pieces)
    /\ LET available == availableColors(config.colors, forbiddenColors(i + 1, fd))
       IN  /\ Len(available) > 0
           /\ pieces' = setColor(i + 1,
                             weightedRandomColor(available, config.colorProbabilities, r))
    /\ i' = i + 1
    /\ UNCHANGED <<config, pc, widths, heights, row, col, cumulativeX, cumulativeY,
                   pieceCol, bounds>>

AssignColor ==
    /\ pc = "color"
    /\ i < Len(pieces)
    /\ \E fd \in [adjacentBefore(i + 1) -> RandomValues] :
          \E r \in RandomValues : AssignColorWith(fd, r)
    /\ UNCHANGED <<arg, ret>>

\* One iteration of the outer loop, every colour forbidden: r is the draw of
\* line 144                               (tessellation.ts:111-137,142-145)
AssignFallbackWith(fd, r) ==
    /\ pc = "color"
    /\ i < Len(pieces)
    /\ Len(availableColors(config.colors, forbiddenColors(i + 1, fd))) = 0
    /\ pieces' = setColor(i + 1, fallbackColor(config.colors, r))
    /\ i' = i + 1
    /\ UNCHANGED <<config, pc, widths, heights, row, col, cumulativeX, cumulativeY,
                   pieceCol, bounds>>

AssignFallback ==
    /\ pc = "color"
    /\ i < Len(pieces)
    /\ \E fd \in [adjacentBefore(i + 1) -> RandomValues] :
          \E r \in RandomValues : AssignFallbackWith(fd, r)
    /\ UNCHANGED <<arg, ret>>

\* Calculate bounds and return            (tessellation.ts:85-95)
Return ==
    /\ pc = "color"
    /\ i = Len(pieces)
    /\ LET b == calculateBounds([k \in 1..Len(pieces) |-> pieces[k].polygon])
       IN  bounds' = [width |-> RSub(b.maxX, b.minX), height |-> RSub(b.maxY, b.minY)]
    /\ pc' = "done"
    /\ UNCHANGED <<config, widths, heights, row, col, cumulativeX, cumulativeY,
                   pieceCol, pieces, i>>

Finish ==
    /\ Return
    /\ UNCHANGED <<arg, ret>>

TessNext == RowWidths \/ RowHeights \/ SplitCell \/ FullCell
               \/ AssignColor \/ AssignFallback \/ Finish

Spec == TessInit /\ [][TessNext]_vars

(***************************************************************************)
(* The pure functions on their own: Init draws the arguments, one action   *)
(* calls the function.  The variables of generateTessellation stay idle.   *)
(***************************************************************************)
IdleTess ==
    /\ config = "none"
    /\ widths = <<>>
    /\ heights = <<>>
    /\ row = 0
    /\ col = 0
    /\ cumulativeX = R(0)
    /\ cumulativeY = R(0)
    /\ pieceCol = 0
    /\ pieces = <<>>
    /\ i = 0
    /\ bounds = NoBounds

\* A finer sample of [0,1) for the functions called on their own
FineRandomValues == RandomValues \cup {Frac(1, 4), Frac(1, 2)}

FineDrawSeqs(n) == [1..n -> FineRandomValues]

MaxCount == 3

RowArgs ==
    [fn : {"generateRowWidths", "generateRowHeights"},
     count : 1..MaxCount,
     baseSize : {R(20), R(50)},
     variation : {R(0), Frac(3, 10), R(1)}]

RowInit ==
    /\ IdleTess
    /\ pc = "call"
    /\ arg \in RowArgs
    /\ ret = "none"

CallRowWidths ==
    /\ pc = "call"
    /\ arg.fn = "generateRowWidths"
    /\ \E draws \in FineDrawSeqs(variationDraws(arg.count, arg.variation)) :
          ret' = generateRowWidths(arg.count, arg.baseSize, arg.variation, draws)
    /\ pc' = "returned"
    /\ UNCHANGED <<tessVars, arg>>

CallRowHeights ==
    /\ pc = "call"
    /\ arg.fn = "generateRowHeights"
    /\ \E draws \in FineDrawSeqs(variationDraws(arg.count, arg.variation)) :
          ret' = generateRowHeights(arg.count, arg.baseSize, arg.variation, draws)
    /\ pc' = "returned"
    /\ UNCHANGED <<tessVars, arg>>

RowNext == CallRowWidths \/ CallRowHeights

SpecRows == RowInit /\ [][RowNext]_vars

\* splitRectangle on its own
SplitArgs ==
    [fn : {"splitRectangle"},
     rect : {createRectangle(q[1], q[2], q[3], q[4]) :
                q \in {R(0), R(25)} \X {R(0), R(50)}
                      \X {R(50), Frac(75, 2), R(1)} \X {R(50), R(20)}},
     angleVariation : {R(0), Frac(1, 2), R(1)}]

SplitInit ==
    /\ IdleTess
    /\ pc = "call"
    /\ arg \in SplitArgs
    /\ ret = "none"

CallSplitRectangle ==
    /\ pc = "call"
    /\ arg.fn = "splitRectangle"
    /\ \E draws \in FineDrawSeqs(splitDraws(arg.angleVariation)) :
          ret' = splitRectangle(arg.rect, arg.angleVariation, draws)
    /\ pc' = "returned"
    /\ UNCHANGED <<tessVars, arg>>

SpecSplit == SplitInit /\ [][CallSplitRectangle]_vars

\* offsetPolygon on its own
Rectangles ==
    {createRectangle(q[1], q[2], q[3], q[4]) :
        q \in {R(0), R(5)} \X {R(0), R(-3)}
              \X {R(10), R(30), Frac(1, 200), Frac(1, 20000)}
              \X {R(10), R(20), Frac(1, 200)}}

\* Polygons that are not axis-aligned rectangles in the order of createRectangle:
\* the same corners listed the other way round, triangles (one with an angle
\* of less than 6 degrees), a repeated vertex (a zero-length edge), a
\* collinear vertex, and arrays of fewer than three points.  Every edge has a
\* rational length, so that the edge directions are exact.
OtherPolygons ==
    { << >>,
      << Pt(R(0), R(0)) >>,
      << Pt(R(0), R(0)), Pt(R(4), R(0)) >>,
      << Pt(R(0), R(0)), Pt(R(0), R(10)), Pt(R(10), R(10)), Pt(R(10), R(0)) >>,
      << Pt(R(0), R(0)), Pt(R(4), R(0)), Pt(R(4), R(3)) >>,
      << Pt(R(0), R(0)), Pt(R(399), R(0)), Pt(R(399), R(40)) >>,
      << Pt(R(0), R(0)), Pt(R(6), R(0)), Pt(R(3), R(4)) >>,
      << Pt(R(0), R(0)), Pt(R(0), R(0)), Pt(R(4), R(0)), Pt(R(4), R(3)) >>,
      << Pt(R(0), R(0)), Pt(R(2), R(0)), Pt(R(4), R(0)), Pt(R(4), R(3)) >> }

\* The corners of a rectangle listed the other way round, from the same corner
otherWinding(rect) == <<rect[1], rect[4], rect[3], rect[2]>>

OffsetArgs ==
    [fn : {"offsetPolygon"},
     polygon : Rectangles \cup {otherWinding(rect) : rect \in Rectangles} \cup OtherPolygons,
     offset : {R(0), R(1), Frac(1, 4), Frac(127, 20), R(-1)}]

OffsetInit ==
    /\ IdleTess
    /\ pc = "call"
    /\ arg \in OffsetArgs
    /\ ret = "none"

CallOffsetPolygon ==
    /\ pc = "call"
    /\ arg.fn = "offsetPolygon"
    /\ ret' = offsetPolygon(arg.polygon, arg.offset)
    /\ pc' = "returned"
    /\ UNCHANGED <<tessVars, arg>>

SpecOffset == OffsetInit /\ [][CallOffsetPolygon]_vars

(***************************************************************************)
(* generateTessellation called twice with the same configuration and the   *)
(* same values from the random source.  arg.source is the sequence of      *)
(* values Math.random() returns: the first call records what it draws,     *)
(* the second call is handed the recorded values in order.  ret is the     *)
(* result of the first call.                                               *)
(***************************************************************************)
MaxSeededCells == 2
MaxSeededDraws == 9

SeededConfigs == {c \in Configs : c.rows * c.cols <= MaxSeededCells}

SeededInit ==
    /\ config \in SeededConfigs
    /\ pc = "widths"
    /\ widths = <<>>
    /\ heights = <<>>
    /\ row = 0
    /\ col = 0
    /\ cumulativeX = R(0)
    /\ cumulativeY = R(0)
    /\ pieceCol = 0
    /\ pieces = <<>>
    /\ i = 0
    /\ bounds = NoBounds
    /\ arg = [run |-> 1, source |-> <<>>]
    /\ ret = "none"

\* The next n values of Math.random(); the first call stops short of drawing
\* more than MaxSeededDraws values
NextDraws(n) ==
    IF arg.run = 1
    THEN IF Len(arg.source) + n <= MaxSeededDraws THEN DrawSeqs(n) ELSE {}
    ELSE IF Len(arg.source) >= n THEN {SubSeq(arg.source, 1, n)}
    ELSE {}

\* The random source after it returned the values s
Consume(s) ==
    arg' = IF arg.run = 1 THEN [arg EXCEPT !.source = @ \o s]
           ELSE [arg EXCEPT !.source = SubSeq(@, Len(s) + 1, Len(@))]

\* The inner loop of assignColorsToPolygons calls Math.random() once for each
\* coloured neighbour, in ascending j     (tessellation.ts:116-129)
adjacencyDraws(k, s) ==
    [a \in adjacentBefore(k) |-> s[Cardinality({b \in adjacentBefore(k) : b <= a})]]

SeededRowWidths ==
    /\ \E s \in NextDraws(variationDraws(config.cols, config.widthVariation)) :
          RowWidthsWith(s) /\ Consume(s)
    /\ UNCHANGED ret

SeededRowHeights ==
    /\ \E s \in NextDraws(variationDraws(config.rows, config.heightVariation)) :
          RowHeightsWith(s) /\ Consume(s)
    /\ UNCHANGED ret

SeededSplitCell ==
    /\ \E s \in NextDraws(1 + splitDraws(config.splitAngleVariation)) :
          SplitCellWith(s[1], Tail(s)) /\ Consume(s)
    /\ UNCHANGED ret

SeededFullCell ==
    /\ \E s \in NextDraws(1) : FullCellWith(s[1]) /\ Consume(s)
    /\ UNCHANGED ret

SeededAssignColor ==
    /\ pc = "color"
    /\ i < Len(pieces)
    /\ \E s \in NextDraws(Cardinality(adjacentBefore(i + 1)) + 1) :
          AssignColorWith(adjacencyDraws(i + 1, s), s[Len(s)]) /\ Consume(s)
    /\ UNCHANGED ret

SeededAssignFallback ==
    /\ pc = "color"
    /\ i < Len(pieces)
    /\ \E s \in NextDraws(Cardinality(adjacentBefore(i + 1)) + 1) :
          AssignFallbackWith(adjacencyDraws(i + 1, s), s[Len(s)]) /\ Consume(s)
    /\ UNCHANGED ret

SeededReturn ==
    /\ Return
    /\ UNCHANGED <<arg, ret>>

\* The first call has returned: keep its result and call again
CallAgain ==
    /\ pc = "done"
    /\ arg.run = 1
    /\ ret' = [pieces |-> pieces, bounds |-> bounds]
    /\ arg' = [arg EXCEPT !.run = 2]
    /\ pc' = "widths"
    /\ widths' = <<>>
    /\ heights' = <<>>
    /\ row' = 0
    /\ col' = 0
    /\ cumulativeX' = R(0)
    /\ cumulativeY' = R(0)
    /\ pieceCol' = 0
    /\ pieces' = <<>>
    /\ i' = 0
    /\ bounds' = NoBounds
    /\ UNCHANGED config

SeededNext == SeededRowWidths \/ SeededRowHeights \/ SeededSplitCell \/ SeededFullCell
                 \/ SeededAssignColor \/ SeededAssignFallback \/ SeededReturn
                 \/ CallAgain

SpecSeeded == SeededInit /\ [][SeededNext]_vars

(***************************************************************************)
(* generateTessellation followed by applySeamAllowance on its result.      *)
(* ret is the result applySeamAllowance returns.                           *)
(***************************************************************************)
\* applySeamAllowance leaving out the pieces whose offset polygon is empty
applySeamAllowanceNonEmpty(result) ==
    LET offsets == [k \in 1..Len(result.pieces) |->
                       offsetPolygon(result.pieces[k].polygon, result.config.seamAllowance)]
    IN  [result EXCEPT !.pieces = SelectSeq(
            [k \in 1..Len(result.pieces) |-> [result.pieces[k] EXCEPT !.polygon = offsets[k]]],
            LAMBDA p : p.polygon # <<>>)]

\* tessellation.ts:261
applySeamAllowance(result) ==
    IF result.config.seamAllowance = R(0) THEN result
    ELSE LET piecesWithSeams ==
                 [k \in 1..Len(result.pieces) |->
                     [result.pieces[k] EXCEPT
                         !.polygon = offsetPolygon(@, result.config.seamAllowance)]]
             b == calculateBounds([k \in 1..Len(piecesWithSeams) |->
                                      piecesWithSeams[k].polygon])
         IN  [result EXCEPT !.pieces = piecesWithSeams,
                            !.bounds = [width |-> RSub(b.maxX, b.minX),
                                        height |-> RSub(b.maxY, b.minY)]]

MaxSeamCells == 2

\* Configurations with the field generateTessellation does not read; 6.35 is
\* the default seam allowance (App.tsx:53).  The two settings that only move
\* rows or relax the colouring are left at zero.
SeamConfigs ==
    {c @@ [seamAllowance |-> sa] :
        c \in {d \in Configs : /\ d.rows * d.cols <= MaxSeamCells
                                /\ d.offsetAmount = R(0)
                                /\ d.sameColorProbability = R(0)},
        sa \in {R(0), Frac(127, 20)}}

SeamInit ==
    /\ config \in SeamConfigs
    /\ pc = "widths"
    /\ widths = <<>>
    /\ heights = <<>>
    /\ row = 0
    /\ col = 0
    /\ cumulativeX = R(0)
    /\ cumulativeY = R(0)
    /\ pieceCol = 0
    /\ pieces = <<>>
    /\ i = 0
    /\ bounds = NoBounds
    /\ arg = "none"
    /\ ret = "none"

\* applySeamAllowance(baseTessellation)   (App.tsx:82-84)
ApplySeamAllowance ==
    /\ pc = "done"
    /\ ret' = applySeamAllowance([pieces |-> pieces, config |-> config, bounds |-> bounds])
    /\ pc' = "seamed"
    /\ UNCHANGED <<tessVars, arg>>

SeamNext == TessNext \/ ApplySeamAllowance

SpecSeam == SeamInit /\ [][SeamNext]_vars

(***************************************************************************)
(* Properties.                                                             *)
(***************************************************************************)
plainGrid ==
    /\ config.splitProbability = R(0)
    /\ config.offsetAmount = R(0)
    /\ config.widthVariation = R(0)
    /\ config.heightVariation = R(0)

\* C1: in a single row of unsplit, unvaried cells with colors >= 2 and
\* sameColorProbability = 0, every piece after the first has a colour different
\* from the piece before it, whatever the random draws.
C1_SingleRowNeighboursDiffer ==
    (/\ pc = "done"
     /\ config.rows = 1
     /\ plainGrid
     /\ config.colors >= 2
     /\ config.sameColorProbability = R(0))
    => \A k \in 2..Len(pieces) : pieces[k].colorIndex # pieces[k - 1].colorIndex

\* C2: when generateTessellation has returned, every piece has a colorIndex in
\* 0..colors-1; none is left at -1.
C2_ColorsInRange ==
    pc = "done" => \A k \in 1..Len(pieces) : pieces[k].colorIndex \in 0..(config.colors - 1)

C2_Witness ==
    /\ pc = "done"
    /\ config.colors = 3
    /\ config.splitProbability # R(0)
    /\ Len(pieces) >= 4
    /\ \E k \in 1..Len(pieces) : pieces[k].colorIndex = 2

\* C3: the widths generateRowWidths returns for one row sum to cols * base, for
\* every variation in [0,1] and every outcome of the random draws.
C3_WidthsSumToTarget ==
    (pc = "returned" /\ arg.fn = "generateRowWidths")
    => SumSeq(ret) = RMul(R(arg.count), arg.baseSize)

\* C4: the heights generateRowHeights returns sum to rows * base, for every
\* heightVariation in [0,1] and every outcome of the random draws.
C4_HeightsSumToTarget ==
    (pc = "returned" /\ arg.fn = "generateRowHeights")
    => SumSeq(ret) = RMul(R(arg.count), arg.baseSize)

rectWidth(rect) == RSub(rect[2].x, rect[1].x)

rectHeight(rect) == RSub(rect[4].y, rect[1].y)

\* The rectangle enlarged by d on every side
grownBy(rect, d) ==
    createRectangle(RSub(rect[1].x, d), RSub(rect[1].y, d),
                    RAdd(rectWidth(rect), RMul(R(2), d)),
                    RAdd(rectHeight(rect), RMul(R(2), d)))

C6_ZeroOffsetIsIdentity ==
    (pc = "returned" /\ arg.offset = R(0)) => ret = arg.polygon

C6_Witness ==
    /\ pc = "returned"
    /\ arg.offset = R(0)
    /\ Len(arg.polygon) = 4
    /\ arg.polygon[1] = arg.polygon[2]
    /\ ret = arg.polygon

\* C7: the shoelace areas of the two polygons splitRectangle returns sum to the
\* area of the rectangle, for every angleVariation in [0,1] and every draw.
C7_SplitConservesArea ==
    pc = "returned"
    => RAdd(calculatePolygonArea(ret[1]), calculatePolygonArea(ret[2]))
          = RMul(rectWidth(arg.rect), rectHeight(arg.rect))

C7_Witness ==
    /\ pc = "returned"
    /\ arg.angleVariation = R(1)
    /\ Len(ret[1]) = 4
    /\ ret[1][2].x # ret[1][3].x
    /\ calculatePolygonArea(ret[1]) # calculatePolygonArea(ret[2])

vertexSet(polygon) == {polygon[k] : k \in 1..Len(polygon)}

\* C8: with angleVariation = 0 splitRectangle returns two triangles of corners
\* of the rectangle that share exactly two vertices, the ends of one diagonal,
\* and that use all four corners between them.
C8_TrianglesShareDiagonal ==
    (pc = "returned" /\ arg.angleVariation = R(0))
    => LET shared == vertexSet(ret[1]) \cap vertexSet(ret[2])
       IN  /\ Len(ret[1]) = 3
           /\ Len(ret[2]) = 3
           /\ vertexSet(ret[1]) \cup vertexSet(ret[2]) = vertexSet(arg.rect)
           /\ Cardinality(shared) = 2
           /\ \/ shared = {arg.rect[1], arg.rect[3]}
              \/ shared = {arg.rect[2], arg.rect[4]}

C8_Witness ==
    /\ pc = "returned"
    /\ arg.angleVariation = R(0)
    /\ vertexSet(ret[1]) \cap vertexSet(ret[2]) = {arg.rect[2], arg.rect[4]}

\* C9: with no split, no offset and no width or height variation,
\* generateTessellation returns rows * cols pieces and bounds of
\* cols * squareSize by rows * squareSize.
C9_GridLayout ==
    (pc = "done" /\ plainGrid)
    => /\ Len(pieces) = config.rows * config.cols
       /\ bounds.width = RMul(R(config.cols), config.squareSize)
       /\ bounds.height = RMul(R(config.rows), config.squareSize)

C9_Witness ==
    /\ pc = "done"
    /\ plainGrid
    /\ config.rows = 1
    /\ config.cols = 2
    /\ config.squareSize = R(50)
    /\ Len(pieces) = 2
    /\ bounds = [width |-> R(100), height |-> R(50)]

\* During colour assignment the pieces before position i are coloured and the
\* others are not
colouredPrefix ==
    pc \in {"color", "done"}
    => \A k \in 1..Len(pieces) : (pieces[k].colorIndex # -1) <=> (k <= i)

\* A step changes the colour of piece k only as step i = k - 1 of the colour
\* loop, from -1 to a colour
colourChangesInOrder ==
    \A k \in 1..Len(pieces) :
        (k <= Len(pieces') /\ pieces'[k].colorIndex # pieces[k].colorIndex)
        => /\ pc = "color"
           /\ k = i + 1
           /\ i' = i + 1
           /\ pieces[k].colorIndex = -1
           /\ pieces'[k].colorIndex # -1

\* C10: pieces are coloured in list order, each changing once from -1 to its
\* final colour at its own step; no step changes an earlier piece, and at step
\* i only the pieces before i carry a colour to read.
C10_OnePassColouring == [](colouredPrefix) /\ [][colourChangesInOrder]_vars

C10_Witness ==
    /\ pc = "color"
    /\ i = 2
    /\ Len(pieces) >= 3
    /\ pieces[2].colorIndex # -1
    /\ pieces[3].colorIndex = -1

metadata(p) ==
    [id |-> p.id, colorIndex |-> p.colorIndex, isTriangle |-> p.isTriangle,
     row |-> p.row, col |-> p.col, position |-> p.position]

seamFrame ==
    pc = "seamed" =>
        /\ Len(ret.pieces) = Len(pieces)
        /\ \A k \in 1..Len(pieces) : metadata(ret.pieces[k]) = metadata(pieces[k])
        /\ (config.seamAllowance = R(0) =>
               ret = [pieces |-> pieces, config |-> config, bounds |-> bounds])

seamLeavesInput ==
    pc' = "seamed" => (pieces' = pieces /\ bounds' = bounds /\ config' = config)

\* C12: applySeamAllowance returns as many pieces as it was given, in the same
\* order and with the same id, colorIndex, isTriangle, row, col and position;
\* the result it was given and the polygons of its pieces are left as they
\* were; with seamAllowance = 0 it returns the result it was given.
C12_SeamAllowanceFrame == [](seamFrame) /\ [][seamLeavesInput]_vars

C12_Witness ==
    /\ pc = "seamed"
    /\ config.seamAllowance # R(0)
    /\ Len(pieces) = 3
    /\ pieces[1].position = "top"
    /\ pieces[3].colorIndex = 1
    /\ \A k \in 1..3 : /\ ret.pieces[k].polygon # pieces[k].polygon
                        /\ Len(ret.pieces[k].polygon) >= 3

\* The colours of the earlier pieces that share an edge with piece k
neighbourColors(k) == {pieces[j].colorIndex : j \in adjacentBefore(k)}

fallbackOnlyWhenAllForbidden ==
    AssignFallback =>
        /\ \A c \in 0..(config.colors - 1) : c \in neighbourColors(i + 1)
        /\ pieces'[i + 1].colorIndex \in 0..(config.colors - 1)

\* C13: a step of assignColorsToPolygons takes the fallback branch for piece i
\* only if every colour 0..numColors-1 is the colour of an earlier piece that
\* shares an edge with piece i; the piece then gets a colour in 0..numColors-1.
C13_FallbackOnlyWhenAllForbidden == [][fallbackOnlyWhenAllForbidden]_vars

C13_Witness ==
    /\ pc = "color"
    /\ i >= 3
    /\ \A c \in 0..(config.colors - 1) : c \in neighbourColors(i)
    /\ pieces[i].colorIndex \in neighbourColors(i)
    /\ config.sameColorProbability = R(0)

\* The last part of a piece's id: "left" and "right" for the two pieces of a
\* split cell, "full" for an unsplit one
idSuffix(p) == p.id[Len(p.id)]

\* C14: every piece of a split cell has isTriangle = (splitAngleVariation = 0)
\* and a polygon of 3 vertices if isTriangle, of 4 otherwise; every piece of an
\* unsplit cell has isTriangle = FALSE, position "full" and 4 vertices.
C14_TriangleFlagMatchesShape ==
    \A k \in 1..Len(pieces) :
        LET p == pieces[k]
        IN  IF idSuffix(p) = "full"
            THEN p.isTriangle = FALSE /\ p.position = "full" /\ Len(p.polygon) = 4
            ELSE /\ p.isTriangle = (config.splitAngleVariation = R(0))
                 /\ Len(p.polygon) = IF p.isTriangle THEN 3 ELSE 4

C14_Witness ==
    /\ pc = "done"
    /\ Len(pieces) = 3
    /\ idSuffix(pieces[1]) = "left" /\ Len(pieces[1].polygon) = 3
    /\ idSuffix(pieces[2]) = "right" /\ pieces[2].isTriangle
    /\ idSuffix(pieces[3]) = "full" /\ Len(pieces[3].polygon) = 4

\* The number of pieces before index k that lie in the row of piece k
earlierInRow(k) == Cardinality({j \in 1..(k - 1) : pieces[j].row = pieces[k].row})

\* C15: when generateTessellation has returned, the pieces are in row-major
\* order; in list order the col values of a row are 0,1,2,...; an unsplit cell
\* gives one piece, a split cell two consecutive pieces, "top" then "bottom",
\* with col k and k+1; the count restarts at 0 on every row.
C15_PieceColumnsSequential ==
    pc = "done" =>
        \A k \in 1..Len(pieces) :
            /\ k > 1 => pieces[k].row \in {pieces[k - 1].row, pieces[k - 1].row + 1}
            /\ k = 1 => pieces[k].row = 0
            /\ pieces[k].col = earlierInRow(k)
            /\ pieces[k].position = "full" =>
                   Cardinality({j \in 1..Len(pieces) :
                                   /\ pieces[j].id[2] = pieces[k].id[2]
                                   /\ pieces[j].id[4] = pieces[k].id[4]}) = 1
            /\ pieces[k].position = "top" =>
                   /\ k < Len(pieces)
                   /\ pieces[k + 1].position = "bottom"
                   /\ pieces[k + 1].row = pieces[k].row
                   /\ pieces[k + 1].col = pieces[k].col + 1
                   /\ pieces[k + 1].id[2] = pieces[k].id[2]
                   /\ pieces[k + 1].id[4] = pieces[k].id[4]
            /\ pieces[k].position = "bottom" =>
                   /\ k > 1
                   /\ pieces[k - 1].position = "top"

C15_Witness ==
    /\ pc = "done"
    /\ Len(pieces) = 3
    /\ pieces[1].position = "top" /\ pieces[1].col = 0 /\ pieces[1].row = 0
    /\ pieces[2].position = "bottom" /\ pieces[2].col = 1 /\ pieces[2].row = 0
    /\ pieces[3].position = "full" /\ pieces[3].col = 0 /\ pieces[3].row = 1

\* C16: when generateTessellation has returned, the two pieces of a split
\* cell have the same colorIndex.
C16_SplitHalvesSameColour ==
    pc = "done" =>
        \A k \in 1..(Len(pieces) - 1) :
            pieces[k].position = "top" => pieces[k + 1].colorIndex = pieces[k].colorIndex

\* The rectangle of grid cell (r, c) as the claim gives it: left x is the sum of
\* the widths of cells 0..c-1 of row r plus (r mod 2) * offsetAmount *
\* squareSize, top y is the sum of the heights of rows 0..r-1
expectedRect(r, c) ==
    createRectangle(
        RAdd(SumSeq(SubSeq(widths[r + 1], 1, c)),
             RMul(RMul(R(r % 2), config.offsetAmount), config.squareSize)),
        SumSeq(SubSeq(heights, 1, r)),
        widths[r + 1][c + 1],
        heights[r + 1])

\* C17: when generateTessellation has returned, the piece of an unsplit cell
\* (r, c) is the rectangle at that position and the two pieces of a split cell
\* have its four corners; every row r starts at x = (r mod 2) * offsetAmount *
\* squareSize; the right edge of cell (r, c) is the left edge of cell (r, c+1).
C17_CellPositions ==
    pc = "done" =>
        /\ \A k \in 1..Len(pieces) :
              LET p == pieces[k]
                  rect == expectedRect(p.id[2], p.id[4])
              IN  /\ p.position = "full" => p.polygon = rect
                  /\ p.position = "top" =>
                         {rect[n] : n \in 1..4} \subseteq
                             (vertexSet(p.polygon) \cup vertexSet(pieces[k + 1].polygon))
                  /\ p.col = 0 =>
                         p.polygon[1].x = RMul(RMul(R(p.row % 2), config.offsetAmount),
                                               config.squareSize)
        /\ \A r \in 0..(config.rows - 1) : \A c \in 0..(config.cols - 2) :
              /\ expectedRect(r, c)[2] = expectedRect(r, c + 1)[1]
              /\ expectedRect(r, c)[3] = expectedRect(r, c + 1)[4]

C17_Witness ==
    /\ pc = "done"
    /\ config.rows = 2 /\ config.cols = 2
    /\ Len(pieces) = 4
    /\ pieces[3].polygon[1] = Pt(R(25), R(50))
    /\ pieces[4].polygon[1] = Pt(R(75), R(50))
    /\ pieces[3].polygon[2] = pieces[4].polygon[1]

\* A rectangle large enough for offsetPolygon to treat none of its edges as
\* degenerate and none of its corners as near-parallel
regularRectangle(rect) ==
    /\ RLe(Frac(1, 10000), rectWidth(rect))
    /\ RLe(Frac(1, 10000), rectHeight(rect))
    /\ RGt(RMul(rectWidth(rect), rectHeight(rect)), Frac(1, 10000))

\* offsetPolygon returned the four corners of rect enlarged by arg.offset, and
\* the same corners as for the other winding of its argument
grownEitherWay(rect) ==
    /\ Len(ret) = 4
    /\ vertexSet(ret) = vertexSet(grownBy(rect, arg.offset))
    /\ vertexSet(ret) = vertexSet(offsetPolygon(otherWinding(arg.polygon), arg.offset))

prevOf(polygon, k) == polygon[((k + Len(polygon) - 2) % Len(polygon)) + 1]

nextOf(polygon, k) == polygon[(k % Len(polygon)) + 1]

\* The outward normal of the edge from a to b, of unit length
outwardNormal(polygon, a, b) ==
    outwardPerp(isClockwise(polygon), unitVec(vecSub(b, a), vecLen(vecSub(b, a))))

\* Vertex k has no adjacent edge shorter than 0.0001
properEdges(polygon, k) ==
    /\ RLe(Frac(1, 10000), vecLen(vecSub(polygon[k], prevOf(polygon, k))))
    /\ RLe(Frac(1, 10000), vecLen(vecSub(nextOf(polygon, k), polygon[k])))

\* The determinant of the two edges at vertex k exceeds 0.0001 in magnitude
properCorner(polygon, k) ==
    RGt(RAbs(cross(vecSub(polygon[k], prevOf(polygon, k)),
                   vecSub(nextOf(polygon, k), polygon[k]))), Frac(1, 10000))

withinLimit(p, curr, d) == RLe(vecLen(vecSub(p, curr)), RMul(R(10), d))

\* What the claim says of the points pts emitted for vertex k: all lie within
\* 10 * d of the vertex; they are either the one point where the two offset
\* edges meet, or, that point being farther away than 10 * d, the vertex
\* displaced by d along the normal of the incoming and of the outgoing edge
miterOrBevel(polygon, d, k) ==
    LET curr == polygon[k]
        pts == offsetVertex(polygon, d, k)
        in == outwardNormal(polygon, prevOf(polygon, k), curr)
        out == outwardNormal(polygon, curr, nextOf(polygon, k))
        p1 == shifted(prevOf(polygon, k), in, d)
        p3 == shifted(curr, out, d)
        miter == miterPoint(p1, shifted(curr, in, d), p3, shifted(nextOf(polygon, k), out, d))
    IN  /\ \A n \in 1..Len(pts) : withinLimit(pts[n], curr, d)
        /\ \/ pts = <<miter>>
           \/ /\ pts = <<shifted(curr, in, d), shifted(curr, out, d)>>
              /\ ~withinLimit(miter, curr, d)

\* The points emitted for vertices 1..k, in the order of the vertices
RECURSIVE emittedUpTo(_, _, _)
emittedUpTo(polygon, d, k) ==
    IF k = 0 THEN <<>>
    ELSE emittedUpTo(polygon, d, k - 1) \o offsetVertex(polygon, d, k)

\* C19 as stated: for every input vertex and d > 0, the points offsetPolygon
\* emits for the vertex lie within 10 * d of it and are either the single miter
\* point or, the miter point being farther away than 10 * d, the two bevel
\* points in order; the output lists the points vertex by vertex.
C19_EveryVertexMiterOrBevel ==
    (pc = "returned" /\ RGt(arg.offset, R(0))) =>
        /\ \A k \in 1..Len(arg.polygon) : miterOrBevel(arg.polygon, arg.offset, k)
        /\ ret = emittedUpTo(arg.polygon, arg.offset, Len(arg.polygon))

\* C19 as amended: the same for every input vertex whose adjacent edges are at
\* least 0.0001 long and whose two edges have a determinant above 0.0001 in
\* magnitude.
C19_MiterLimit ==
    (pc = "returned" /\ RGt(arg.offset, R(0))) =>
        /\ \A k \in 1..Len(arg.polygon) :
              (properEdges(arg.polygon, k) /\ properCorner(arg.polygon, k))
              => miterOrBevel(arg.polygon, arg.offset, k)
        /\ ret = emittedUpTo(arg.polygon, arg.offset, Len(arg.polygon))

C19_Witness ==
    /\ pc = "returned"
    /\ arg.polygon = << Pt(R(0), R(0)), Pt(R(399), R(0)), Pt(R(399), R(40)) >>
    /\ arg.offset = R(1)
    /\ Len(ret) = 4
    /\ ret[1] = Pt(Frac(-40, 401), Frac(399, 401))
    /\ ret[2] = Pt(R(0), R(-1))
    /\ ret[3] = Pt(R(400), R(-1))

\* What the claim says of vertex k: next to an edge shorter than 0.0001 it
\* contributes no point; otherwise, its two edges having a determinant of at
\* most 0.0001 in magnitude, it contributes the midpoint of the two offset
\* end points at the vertex
fallbackAtVertex(polygon, d, k) ==
    LET curr == polygon[k]
        pts == offsetVertex(polygon, d, k)
        p2 == shifted(curr, outwardNormal(polygon, prevOf(polygon, k), curr), d)
        p3 == shifted(curr, outwardNormal(polygon, curr, nextOf(polygon, k)), d)
    IN  IF ~properEdges(polygon, k) THEN pts = <<>>
        ELSE /\ Len(pts) \in {1, 2}
             /\ ~properCorner(polygon, k) =>
                    pts = << Pt(RDiv(RAdd(p2.x, p3.x), R(2)), RDiv(RAdd(p2.y, p3.y), R(2))) >>

\* The call of offsetPolygon with the arguments at hand has a value, a list of
\* points: evaluating it raises nothing
returnsPoints ==
    LET result == offsetPolygon(arg.polygon, arg.offset)
    IN  \A n \in 1..Len(result) : DOMAIN result[n] = {"x", "y"}

\* offsetPolygon returned the points of the vertices of its argument, vertex by
\* vertex, the skipped vertices contributing none
allVerticesProcessed ==
    /\ \A k \in 1..Len(arg.polygon) : fallbackAtVertex(arg.polygon, arg.offset, k)
    /\ ret = emittedUpTo(arg.polygon, arg.offset, Len(arg.polygon))

\* C20 as stated: for any polygon and any distance offsetPolygon returns; a
\* vertex with an adjacent edge shorter than 0.0001 contributes no output
\* point while the other vertices are processed, and a near-parallel vertex
\* contributes the midpoint of the two offset end points.
C20_AnyDistanceFallbacks ==
    /\ pc = "call" => returnsPoints
    /\ pc = "returned" => allVerticesProcessed

\* C20 as amended: offsetPolygon returns for any polygon and any distance; for
\* any distance other than 0, a vertex with an adjacent edge shorter than
\* 0.0001 contributes no output point while the other vertices are processed,
\* and a near-parallel vertex contributes the midpoint of the two offset end
\* points.
C20_FallbacksNeverThrow ==
    /\ pc = "call" => returnsPoints
    /\ (pc = "returned" /\ arg.offset # R(0)) => allVerticesProcessed

C20_Witness ==
    /\ pc = "returned"
    /\ arg.polygon = << Pt(R(0), R(0)), Pt(R(0), R(0)), Pt(R(4), R(0)), Pt(R(4), R(3)) >>
    /\ arg.offset = R(1)
    /\ ret = << Pt(R(5), R(-1)), Pt(R(5), R(5)) >>

(***************************************************************************)
(* C21: the angled split.                                                  *)
(***************************************************************************)
\* p lies on the horizontal line through corner, between 10% and 90% of the
\* width to the right of it
cutWithinMargins(p, corner, width) ==
    /\ p.y = corner.y
    /\ RLe(RAdd(corner.x, RMul(width, Frac(1, 10))), p.x)
    /\ RLe(p.x, RAdd(corner.x, RMul(width, Frac(9, 10))))

\* C21: for angleVariation in (0,1] splitRectangle returns
\* left = [top-left, topCut, bottomCut, bottom-left] and
\* right = [topCut, top-right, bottom-right, bottomCut], where both cut points
\* lie on the top and the bottom edge between 10% and 90% of the width from
\* the left edge, and both quadrilaterals have strictly positive area.
C21_AngledSplitWithinMargins ==
    (pc = "returned" /\ arg.fn = "splitRectangle" /\ arg.angleVariation # R(0)) =>
        LET tl == arg.rect[1]
            tr == arg.rect[2]
            br == arg.rect[3]
            bl == arg.rect[4]
            width == RSub(tr.x, tl.x)
            topCut == ret[1][2]
            bottomCut == ret[1][3]
        IN  /\ Len(ret) = 2
            /\ ret[1] = <<tl, topCut, bottomCut, bl>>
            /\ ret[2] = <<topCut, tr, br, bottomCut>>
            /\ cutWithinMargins(topCut, tl, width)
            /\ cutWithinMargins(bottomCut, bl, width)
            /\ RGt(calculatePolygonArea(ret[1]), R(0))
            /\ RGt(calculatePolygonArea(ret[2]), R(0))

\* The steepest cut of a 50 x 50 square: from 10% on the top edge to 70% on the
\* bottom edge
C21_Witness ==
    /\ pc = "returned"
    /\ arg.fn = "splitRectangle"
    /\ arg.angleVariation = R(1)
    /\ arg.rect = createRectangle(R(0), R(0), R(50), R(50))
    /\ ret[1] = << Pt(R(0), R(0)), Pt(R(5), R(0)), Pt(R(35), R(50)), Pt(R(0), R(50)) >>

(***************************************************************************)
(* C22: weightedRandomColor on its own.  The candidates are what           *)
(* assignColorsToPolygons passes: a non-empty ascending list of colour     *)
(* indices (tessellation.ts:132-140).  The weights are what the sliders    *)
(* can leave in config.colorProbabilities, an entry of 0 included, and     *)
(* the list may be shorter than the number of colours.                     *)
(***************************************************************************)
CandidateLists ==
    {availableFrom(0, MaxColors, forbidden) : forbidden \in SUBSET (0..(MaxColors - 1))}
        \ {<<>>}

WeightedArgs ==
    [fn : {"weightedRandomColor"},
     availableColors : CandidateLists,
     colorProbabilities : UNION {[1..n -> {R(0), R(50), Frac(100, 3)}] :
                                    n \in (MaxColors - 1)..MaxColors}]

WeightedInit ==
    /\ IdleTess
    /\ pc = "call"
    /\ arg \in WeightedArgs
    /\ ret = "none"

CallWeightedRandomColor ==
    /\ pc = "call"
    /\ arg.fn = "weightedRandomColor"
    /\ \E r \in FineRandomValues :
          ret' = weightedRandomColor(arg.availableColors, arg.colorProbabilities, r)
    /\ pc' = "returned"
    /\ UNCHANGED <<tessVars, arg>>

SpecWeighted == WeightedInit /\ [][CallWeightedRandomColor]_vars

candidates == {arg.availableColors[k] : k \in 1..Len(arg.availableColors)}

\* C22: weightedRandomColor returns a member of the candidate list, and when
\* at least one candidate has a positive weight it never returns a candidate
\* whose weight is 0, whatever value in [0,1) Math.random() yields.
C22_NeverZeroWeight ==
    (pc = "returned" /\ arg.fn = "weightedRandomColor") =>
        /\ ret \in candidates
        /\ (\E c \in candidates : RGt(weightOf(arg.colorProbabilities, c), R(0))) =>
               RGt(weightOf(arg.colorProbabilities, ret), R(0))

(***************************************************************************)
(* packPolygons (lib/packing.ts, the version of src/unnamed/part_003).  The  *)
(* promise executor schedules two                                           *)
(* timers: nester.start() after 0 ms and the safety timeout after 30000 ms. *)
(* any-nest is a library outside the repository: its result callback is    *)
(* the environment, which may report any placement (none included) any      *)
(* number of times while the nester runs, and reports nothing once          *)
(* stop() was called.  Each callback and each timer runs to completion,     *)
(* so each is one action.  arg holds the arguments of the call, ret the     *)
(* variables of the closure:                                                *)
(*   piecesWithSeams  packing.ts:60                                         *)
(*   promise, value   the state of the returned promise and what it was     *)
(*                    settled with                                          *)
(*   bestResult       <<>> for null, <<r>> for the PackedResult r           *)
(*   iterationCount   packing.ts:114                                        *)
(*   startTimer, timeoutTimer   "scheduled" or "fired"                      *)
(*   nester           "idle", "running" or "stopped"                        *)
(*   stopCalls, progressCalls   the calls of nester.stop() and onProgress   *)
(*   lastProgress     <<>> or the last PackingProgress handed to onProgress *)
(***************************************************************************)
MaxCallbacks == 11
MaxPackPieces == 2

\* An unsplit 50 x 50 piece of row 0
packPiece(c) ==
    [id |-> pieceId(0, c, "full"),
     polygon |-> createRectangle(R(50 * c), R(0), R(50), R(50)),
     colorIndex |-> 0,
     isTriangle |-> FALSE,
     row |-> 0,
     col |-> c,
     position |-> "full"]

\* maxIterations is 0 where the option is left out; every call passes
\* onProgress, as the app does
PackArgs ==
    [fn : {"packPolygons"},
     pieces : {[k \in 1..n |-> packPiece(k - 1)] : n \in 0..MaxPackPieces},
     sheetWidth : {R(600), R(60), R(0)},
     sheetHeight : {R(400), R(60)},
     seamAllowance : {R(0), R(5)},
     maxIterations : {0, 1, 2}]

\* options.maxIterations || 10            (packing.ts:115)
maxIterations(options) == IF options.maxIterations = 0 THEN 10 ELSE options.maxIterations

\* packing.ts:60-63
piecesWithSeams(options) ==
    [k \in 1..Len(options.pieces) |->
        [options.pieces[k] EXCEPT !.polygon = offsetPolygon(@, options.seamAllowance)]]

\* packing.ts:163-167
efficiency(withSeams, options) ==
    LET totalArea == SumSeq([k \in 1..Len(withSeams) |->
                               calculatePolygonArea(withSeams[k].polygon)])
        sheetArea == RMul(options.sheetWidth, options.sheetHeight)
    IN  RMul(RDiv(totalArea, sheetArea), R(100))

\* What the nester may report as placements[0], the parts it has laid on the
\* first sheet: every piece at most once, in the order of the parts, and no
\* more of them than the sheet has room for
Placements(withSeams, options) ==
    LET placedArea(ids) ==
            SumSeq([k \in 1..Len(withSeams) |->
                       IF withSeams[k].id \in ids
                       THEN calculatePolygonArea(withSeams[k].polygon)
                       ELSE R(0)])
        onSheet == {ids \in SUBSET {options.pieces[k].id : k \in 1..Len(options.pieces)} :
                       RLe(placedArea(ids), RMul(options.sheetWidth, options.sheetHeight))}
    IN  {SelectSeq([k \in 1..Len(options.pieces) |->
                       [id |-> options.pieces[k].id, translate |-> Pt(R(0), R(0)),
                        rotate |-> 0]],
                   LAMBDA p : p.id \in ids) : ids \in onSheet}

Utilizations == {Frac(1, 2), R(1)}

\* Converting the placements              (packing.ts:146-160)
packed(withSeams, options, placements) ==
    LET find(list, id) == SelectSeq(list, LAMBDA p : p.id = id)
    IN  [k \in 1..Len(placements) |->
            [piece |-> find(withSeams, placements[k].id)[1],
             originalPiece |-> find(options.pieces, placements[k].id)[1],
             x |-> placements[k].translate.x,
             y |-> placements[k].translate.y,
             rotation |-> placements[k].rotate]]

\* resolve and reject of a promise: the first call settles it, later calls
\* do nothing
settle(closure, state, value) ==
    IF closure.promise = "pending"
    THEN [closure EXCEPT !.promise = state, !.value = value]
    ELSE closure

progress(closure, iteration, utilization, isRunning) ==
    [closure EXCEPT !.progressCalls = @ + 1,
                    !.lastProgress = <<[iteration |-> iteration,
                                        utilization |-> utilization,
                                        isRunning |-> isRunning]>>]

stopNester(closure) ==
    [closure EXCEPT !.nester = "stopped", !.stopCalls = @ + 1]

\* packing.ts:60-63,112-119,198
PackInit ==
    /\ IdleTess
    /\ pc = "pack"
    /\ arg \in PackArgs
    /\ ret = [piecesWithSeams |-> piecesWithSeams(arg),
              promise |-> "pending", value |-> <<>>, bestResult |-> <<>>,
              iterationCount |-> 0, startTimer |-> "scheduled",
              timeoutTimer |-> "scheduled", nester |-> "idle",
              stopCalls |-> 0, progressCalls |-> 0, lastProgress |-> <<>>]

\* The timer of 0 ms                       (packing.ts:119-121)
StartNester ==
    /\ pc = "pack"
    /\ ret.startTimer = "scheduled"
    /\ ret' = [ret EXCEPT !.startTimer = "fired", !.nester = "running"]
    /\ UNCHANGED <<pc, tessVars, arg>>

\* The result callback, for a report without a placement   (packing.ts:126-143)
EmptyResult ==
    /\ pc = "pack"
    /\ ret.nester = "running"
    /\ ret.iterationCount < MaxCallbacks
    /\ \E utilization \in Utilizations :
          ret' = progress([ret EXCEPT !.iterationCount = @ + 1],
                          ret.iterationCount + 1, RMul(utilization, R(100)), TRUE)
    /\ UNCHANGED <<pc, tessVars, arg>>

\* The result callback, for a report with a placement      (packing.ts:126-193)
PlacementResult ==
    /\ pc = "pack"
    /\ ret.nester = "running"
    /\ ret.iterationCount < MaxCallbacks
    /\ \E placements \in Placements(ret.piecesWithSeams, arg) \ {<<>>}, utilization \in Utilizations :
          LET count == ret.iterationCount + 1
              reported == progress([ret EXCEPT !.iterationCount = count],
                                   count, RMul(utilization, R(100)), TRUE)
              result == [pieces |-> packed(ret.piecesWithSeams, arg, placements),
                         sheetWidth |-> arg.sheetWidth,
                         sheetHeight |-> arg.sheetHeight,
                         efficiency |-> efficiency(ret.piecesWithSeams, arg)]
              updated == [reported EXCEPT !.bestResult = <<result>>]
          IN  ret' = IF count >= maxIterations(arg)
                     THEN settle(progress(stopNester(updated), count,
                                          RMul(utilization, R(100)), FALSE),
                                 "resolved", <<result>>)
                     ELSE updated
    /\ UNCHANGED <<pc, tessVars, arg>>

\* The timer of 30000 ms, which fires after the timer of 0 ms
\* (packing.ts:198-216)
PackingTimeout ==
    /\ pc = "pack"
    /\ ret.startTimer = "fired"
    /\ ret.timeoutTimer = "scheduled"
    /\ LET stopped == stopNester([ret EXCEPT !.timeoutTimer = "fired"])
           reported == progress(stopped, ret.iterationCount,
                                IF ret.bestResult # <<>> THEN ret.bestResult[1].efficiency
                                ELSE R(0),
                                FALSE)
       IN  ret' = IF ret.bestResult # <<>>
                  THEN settle(reported, "resolved", ret.bestResult)
                  ELSE settle(reported, "rejected",
                              <<"No valid packing found within timeout period">>)
    /\ UNCHANGED <<pc, tessVars, arg>>

PackNext == StartNester \/ EmptyResult \/ PlacementResult \/ PackingTimeout

SpecPack == PackInit /\ [][PackNext]_vars

\* C23: the promise of packPolygons is settled once and for all; it is
\* resolved with the most recent placement result as soon as the count of
\* result callbacks reaches maxIterations (10 where the option is left out);
\* otherwise the 30-second timeout resolves it with the best result recorded
\* so far, or rejects it with 'No valid packing found within timeout period'
\* when no placement was ever reported.  (The first part is stated for the
\* runs in which a placement was reported, the only ones that have a result
\* to resolve with.)
settlesAtMaxIterations ==
    pc = "pack" =>
        /\ (ret.iterationCount >= maxIterations(arg) /\ ret.bestResult # <<>>) =>
               ret.promise = "resolved" /\ ret.value = ret.bestResult
        /\ ret.timeoutTimer = "fired" =>
               IF ret.bestResult # <<>> THEN ret.promise = "resolved"
               ELSE /\ ret.promise = "rejected"
                    /\ ret.value = <<"No valid packing found within timeout period">>

settledOnce ==
    (pc = "pack" /\ ret.promise # "pending") =>
        ret'.promise = ret.promise /\ ret'.value = ret.value

C23_SettlesAtMaxIterations == [](settlesAtMaxIterations) /\ [][settledOnce]_vars

\* C27: once the promise of packPolygons has settled, no step of the run
\* calls onProgress or nester.stop() again
quietAfterSettling ==
    (pc = "pack" /\ ret.promise # "pending") =>
        ret'.progressCalls = ret.progressCalls /\ ret'.stopCalls = ret.stopCalls

C27_QuietAfterSettling == [][quietAfterSettling]_vars

\* C30: the efficiency of every PackedResult of packPolygons, the best result
\* recorded and the value the promise resolves with, is a percentage from 0
\* to 100.  (Stated for the sheets of positive width and height, on which
\* the percentage is a finite number.)
isPercentage(result) ==
    RLe(R(0), result.efficiency) /\ RLe(result.efficiency, R(100))

C30_EfficiencyIsPercentage ==
    (/\ pc = "pack"
     /\ RGt(arg.sheetWidth, R(0))
     /\ RGt(arg.sheetHeight, R(0))) =>
        /\ ret.bestResult # <<>> => isPercentage(ret.bestResult[1])
        /\ ret.promise = "resolved" => isPercentage(ret.value[1])

(***************************************************************************)
(* savePattern and loadPattern (lib/types.ts).  loadPattern takes a         *)
(* value of type unknown, the result of JSON.parse; a JavaScript value is   *)
(* a record [t |-> its kind, v |-> its content], a string being the         *)
(* sequence of its characters and an object a record of its properties,     *)
(* where a property that is left out has the value undefined.  A call       *)
(* either returns a value or throws.                                        *)
(***************************************************************************)
JsUndefined == [t |-> "undefined", v |-> <<>>]
JsNull == [t |-> "null", v |-> <<>>]
JsNumber(n) == [t |-> "number", v |-> n]
JsString(chars) == [t |-> "string", v |-> chars]
JsArray(elements) == [t |-> "array", v |-> elements]
JsObject(properties) == [t |-> "object", v |-> properties]

\* typeof
typeOf(value) == IF value.t \in {"object", "array", "null"} THEN "object" ELSE value.t

\* !value
falsy(value) ==
    \/ value.t \in {"undefined", "null"}
    \/ value.t = "number" /\ (value.v = R(0) \/ IsNaN(value.v))
    \/ value.t = "string" /\ value.v = <<>>

\* String.prototype.startsWith
startsWith(chars, prefix) ==
    /\ Len(chars) >= Len(prefix)
    /\ SubSeq(chars, 1, Len(prefix)) = prefix

\* types.ts:42
PATTERN_FORMAT_VERSION == <<"1", ".", "0", ".", "0">>

\* types.ts:65; saved is the time of the call
savePattern(tessellation, palette, saved) ==
    JsObject([version |-> JsString(PATTERN_FORMAT_VERSION),
              config |-> JsObject(tessellation.config),
              palette |-> JsArray(palette),
              pieces |-> JsArray(tessellation.pieces),
              bounds |-> JsObject(tessellation.bounds),
              metadata |-> JsObject([saved |-> JsString(saved), name |-> JsUndefined])])

Returned(value) == [threw |-> FALSE, value |-> value]
Thrown(class, message) == [threw |-> TRUE, value |-> <<class, message>>]

\* The property of an object, undefined for the properties it lacks
property(object, name) ==
    IF name \in DOMAIN object.v THEN object.v[name] ELSE JsUndefined

\* loadPattern accepting a pattern whose bounds are missing
loadPatternWithoutBounds(data) ==
    IF typeOf(data) # "object" \/ data.t = "null"
    THEN Thrown("Error", "Invalid pattern file: not a valid JSON object")
    ELSE LET version == property(data, "version")
         IN  IF falsy(version)
             THEN Thrown("Error", "Invalid pattern file: missing version information")
             ELSE IF version.t # "string"
             THEN Thrown("TypeError", "pattern.version.startsWith is not a function")
             ELSE IF ~startsWith(version.v, <<"1", ".">>)
             THEN Thrown("Error", "Incompatible pattern version")
             ELSE IF \/ falsy(property(data, "config"))
                     \/ falsy(property(data, "palette"))
                     \/ falsy(property(data, "pieces"))
             THEN Thrown("Error", "Invalid pattern file: missing required data")
             ELSE Returned(data)

\* types.ts:87
loadPattern(data) ==
    IF typeOf(data) # "object" \/ data.t = "null"
    THEN Thrown("Error", "Invalid pattern file: not a valid JSON object")
    ELSE LET version == property(data, "version")
         IN  IF falsy(version)
             THEN Thrown("Error", "Invalid pattern file: missing version information")
             ELSE IF version.t # "string"
             THEN Thrown("TypeError", "pattern.version.startsWith is not a function")
             ELSE IF ~startsWith(version.v, <<"1", ".">>)
             THEN Thrown("Error", "Incompatible pattern version")
             ELSE IF \/ falsy(property(data, "config"))
                     \/ falsy(property(data, "palette"))
                     \/ falsy(property(data, "pieces"))
                     \/ falsy(property(data, "bounds"))
             THEN Thrown("Error", "Invalid pattern file: missing required data")
             ELSE Returned(data)

\* The tessellations and palettes handed to savePattern
SavedTessellations ==
    [pieces : {<<>>, <<packPiece(0)>>},
     config : {c \in Configs : c.rows * c.cols = 1 /\ layoutDraws(c) = 0},
     bounds : {NoBounds, [width |-> R(50), height |-> R(50)]}]

Palettes == {<<>>, <<"#4A90E2", "#2C3E50">>}

\* What JSON.parse can hand to loadPattern
Versions ==
    {JsUndefined, JsNull, JsNumber(R(1)), JsString(<<>>), JsString(<<"1">>),
     JsString(<<"1", ".">>), JsString(PATTERN_FORMAT_VERSION),
     JsString(<<"2", ".", "0", ".", "0">>), JsString(<<"0", ".", "1", ".">>),
     JsString(<<"1", "0", ".", "0">>)}

PatternObjects ==
    {JsObject([version |-> f[1], config |-> f[2], palette |-> f[3],
               pieces |-> f[4], bounds |-> f[5]]) :
        f \in Versions
              \X {JsUndefined, JsNull, JsObject([rows |-> 1])}
              \X {JsUndefined, JsString(<<>>), JsArray(<<>>)}
              \X {JsUndefined, JsNumber(R(0)), JsArray(<<>>)}
              \X {JsUndefined, JsNull, JsObject(NoBounds)}}

PatternData ==
    {JsUndefined, JsNull, JsNumber(R(1)), JsString(PATTERN_FORMAT_VERSION),
     JsArray(<<>>), JsObject([version |-> JsString(PATTERN_FORMAT_VERSION)])}
        \cup PatternObjects

LoadArgs ==
    [fn : {"loadPattern"}, data : PatternData]
        \cup [fn : {"savePattern"}, tessellation : SavedTessellations, palette : Palettes]

LoadInit ==
    /\ IdleTess
    /\ pc = "call"
    /\ arg \in LoadArgs
    /\ ret = "none"

CallLoadPattern ==
    /\ pc = "call"
    /\ arg.fn = "loadPattern"
    /\ ret' = loadPattern(arg.data)
    /\ pc' = "returned"
    /\ UNCHANGED <<tessVars, arg>>

\* loadPattern(savePattern(tessellation, palette))
CallSaveThenLoad ==
    /\ pc = "call"
    /\ arg.fn = "savePattern"
    /\ ret' = loadPattern(savePattern(arg.tessellation, arg.palette,
                                      <<"2", "0", "2", "5">>))
    /\ pc' = "returned"
    /\ UNCHANGED <<tessVars, arg>>

LoadNext == CallLoadPattern \/ CallSaveThenLoad

SpecLoad == LoadInit /\ [][LoadNext]_vars

required == {"config", "palette", "pieces", "bounds"}

\* A version that is there and starts with '1.'
supportedVersion(data) ==
    LET version == property(data, "version")
    IN  /\ ~falsy(version)
        /\ version.t = "string"
        /\ startsWith(version.v, <<"1", ".">>)

roundTrip ==
    (pc = "returned" /\ arg.fn = "savePattern") =>
        /\ ~ret.threw
        /\ ret.value.v.config.v = arg.tessellation.config
        /\ ret.value.v.palette.v = arg.palette
        /\ ret.value.v.pieces.v = arg.tessellation.pieces
        /\ ret.value.v.bounds.v = arg.tessellation.bounds

\* C24 as stated: loadPattern throws when its argument is not a non-null
\* object, when version is missing or does not start with '1.', or when one of
\* config, palette, pieces and bounds is missing (left out or null); in every
\* other case it returns the given object unchanged, and
\* loadPattern(savePattern(t, p)) has the config, palette, pieces and bounds
\* of t and p.
C24_ThrowsOnlyWhenMissing ==
    /\ (pc = "returned" /\ arg.fn = "loadPattern") =>
          IF \/ typeOf(arg.data) # "object" \/ arg.data.t = "null"
             \/ ~supportedVersion(arg.data)
             \/ \E name \in required :
                    property(arg.data, name).t \in {"undefined", "null"}
          THEN ret.threw
          ELSE ~ret.threw /\ ret.value = arg.data
    /\ roundTrip

\* C24 as amended: loadPattern throws when its argument is not a non-null
\* object, when version is missing or does not start with '1.', or when one of
\* config, palette, pieces and bounds is missing or another falsy value (null,
\* 0, NaN or the empty string); in every other case it returns the given
\* object unchanged, and loadPattern(savePattern(t, p)) has the config,
\* palette, pieces and bounds of t and p.
C24_ThrowsWhenMissingOrFalsy ==
    /\ (pc = "returned" /\ arg.fn = "loadPattern") =>
          IF \/ typeOf(arg.data) # "object" \/ arg.data.t = "null"
             \/ ~supportedVersion(arg.data)
             \/ \E name \in required : falsy(property(arg.data, name))
          THEN ret.threw
          ELSE ~ret.threw /\ ret.value = arg.data
    /\ roundTrip

\* A pattern without bounds is refused
C24_Witness ==
    /\ pc = "returned"
    /\ arg.fn = "loadPattern"
    /\ arg.data.t = "object"
    /\ supportedVersion(arg.data)
    /\ \A name \in required \ {"bounds"} : ~falsy(property(arg.data, name))
    /\ property(arg.data, "bounds").t = "undefined"
    /\ ret.threw

(***************************************************************************)
(* The state of the app (part_005): config, palette, loadedTessellation and *)
(* colorOverrides, with the handlers that change them.  config is the       *)
(* variable of that name; arg holds the rest:                               *)
(*   palette             the colours of the palette                         *)
(*   hasLoaded, loadedTessellation   loadedTessellation, with its null      *)
(*   colorOverrides      the map from piece id to colour index              *)
(*   event, events       the last handler that ran and how many ran         *)
(* baseTessellation is memoized on [config, loadedTessellation]: a handler  *)
(* that sets either makes the next render compute it again, and that        *)
(* render calls generateTessellation(config) unless a pattern is loaded.    *)
(* The variables of generateTessellation hold that call and its result.     *)
(***************************************************************************)
MaxAppCols == 2
MaxAppEvents == 4

\* generateRandomColor                     (part_005:342-347)
generateRandomColor == "hsl"

\* generateInitialPalette                  (part_005:353-361)
generateInitialPalette(count) ==
    LET defaults == <<"#4A90E2", "#2C3E50", "#1A1F3A">>
    IN  [k \in 1..count |-> IF k <= Len(defaults) THEN defaults[k] ELSE generateRandomColor]

\* Array.prototype.slice(0, n)
slice(list, n) == SubSeq(list, 1, IF n < Len(list) THEN n ELSE Len(list))

\* updateConfig that keeps the weight of a removed colour
updateConfigKeepingWeights(prev, palette, partial) ==
    LET newConfig == partial @@ prev
    IN  IF "colors" \in DOMAIN partial /\ partial.colors # prev.colors
        THEN LET toAdd == partial.colors - prev.colors
                 share == RDiv(R(100), R(partial.colors))
                 newPalette == IF toAdd > 0
                               THEN palette \o [k \in 1..toAdd |-> generateRandomColor]
                               ELSE slice(palette, partial.colors)
                 resized == IF toAdd > 0
                            THEN newConfig.colorProbabilities \o [k \in 1..toAdd |-> share]
                            ELSE newConfig.colorProbabilities
                 total == SumSeq(resized)
                 newProbs == IF RGt(total, R(0))
                             THEN [k \in 1..Len(resized) |->
                                      RMul(RDiv(resized[k], total), R(100))]
                             ELSE resized
             IN  [config |-> [newConfig EXCEPT !.colorProbabilities = newProbs],
                  palette |-> newPalette]
        ELSE [config |-> newConfig, palette |-> palette]

\* updateConfig: the next config and palette   (part_005:474-508)
updateConfig(prev, palette, partial) ==
    LET newConfig == partial @@ prev
    IN  IF "colors" \in DOMAIN partial /\ partial.colors # prev.colors
        THEN LET toAdd == partial.colors - prev.colors
                 share == RDiv(R(100), R(partial.colors))
                 newPalette == IF toAdd > 0
                               THEN palette \o [k \in 1..toAdd |-> generateRandomColor]
                               ELSE slice(palette, partial.colors)
                 resized == IF toAdd > 0
                            THEN newConfig.colorProbabilities \o [k \in 1..toAdd |-> share]
                            ELSE slice(newConfig.colorProbabilities, partial.colors)
                 total == SumSeq(resized)
                 newProbs == IF RGt(total, R(0))
                             THEN [k \in 1..Len(resized) |->
                                      RMul(RDiv(resized[k], total), R(100))]
                             ELSE resized
             IN  [config |-> [newConfig EXCEPT !.colorProbabilities = newProbs],
                  palette |-> newPalette]
        ELSE [config |-> newConfig, palette |-> palette]

\* The memo of baseTessellation calls generateTessellation always
usesGenerateAlways(app) == TRUE

\* Whether the memo of baseTessellation calls generateTessellation
\* (part_005:428-434)
usesGenerate(app) == ~app.hasLoaded

\* handleRegenerateTessellation that leaves the colour overrides
regeneratedKeepingOverrides(app) ==
    [app EXCEPT !.hasLoaded = FALSE]

\* handleRegenerateTessellation             (part_005:557-564)
regenerated(app) ==
    [app EXCEPT !.hasLoaded = FALSE, !.colorOverrides = <<>>]

\* The configurations of the app model: one row of unsplit cells of the
\* default size, two colours
AppConfigs ==
    {c @@ [seamAllowance |-> Frac(127, 20)] :
        c \in {d \in Configs : /\ d.rows = 1
                                /\ d.cols <= MaxAppCols
                                /\ d.colors = 2
                                /\ layoutDraws(d) = 0
                                /\ d.offsetAmount = R(0)
                                /\ d.sameColorProbability = R(0)}}

NoTessellation == [pieces |-> <<>>, config |-> [rows |-> 0], bounds |-> NoBounds]

\* The files the user can pick: patterns saved earlier
PatternFiles ==
    {savePattern([pieces |-> [k \in 1..c.cols |-> packPiece(k - 1)],
                  config |-> c,
                  bounds |-> [width |-> R(50 * c.cols), height |-> R(50)]],
                 generateInitialPalette(c.colors), <<"2", "0", "2", "5">>) :
        c \in AppConfigs}
        \cup {JsObject([version |-> JsString(<<"2", ".", "0">>)])}

\* The start of a call of generateTessellation     (tessellation.ts:8-29)
StartGeneration ==
    /\ pc' = "widths"
    /\ widths' = <<>>
    /\ heights' = <<>>
    /\ row' = 0
    /\ col' = 0
    /\ cumulativeX' = R(0)
    /\ cumulativeY' = R(0)
    /\ pieceCol' = 0
    /\ pieces' = <<>>
    /\ i' = 0
    /\ bounds' = NoBounds

\* The render after a handler set config or loadedTessellation
Render(app) ==
    IF usesGenerate(app) THEN StartGeneration
    ELSE UNCHANGED <<pc, widths, heights, row, col, cumulativeX, cumulativeY,
                     pieceCol, pieces, i, bounds>>

\* The first render                          (part_005:394-434)
AppInit ==
    /\ config \in AppConfigs
    /\ pc = "widths"
    /\ widths = <<>>
    /\ heights = <<>>
    /\ row = 0
    /\ col = 0
    /\ cumulativeX = R(0)
    /\ cumulativeY = R(0)
    /\ pieceCol = 0
    /\ pieces = <<>>
    /\ i = 0
    /\ bounds = NoBounds
    /\ arg = [palette |-> generateInitialPalette(config.colors),
              hasLoaded |-> FALSE,
              loadedTessellation |-> NoTessellation,
              colorOverrides |-> <<>>,
              event |-> "none",
              events |-> 0]
    /\ ret = "none"

\* A handler runs between two renders
Idle == pc = "done" /\ arg.events < MaxAppEvents

happened(app, event) == [app EXCEPT !.event = event, !.events = @ + 1]

\* updateConfig from the sliders            (part_005:474-508)
UpdateConfig ==
    /\ Idle
    /\ \E partial \in {[cols |-> n] : n \in 1..MaxAppCols} \cup {[colors |-> n] : n \in 2..3} :
          LET next == updateConfig(config, arg.palette, partial)
              app == happened([arg EXCEPT !.palette = next.palette], "updateConfig")
          IN  /\ config' = next.config
              /\ arg' = app
              /\ Render(app)
    /\ UNCHANGED ret

\* handleLoadPattern with a file that loadPattern accepts  (part_005:700-723)
LoadPattern ==
    /\ Idle
    /\ \E file \in PatternFiles :
          LET pattern == loadPattern(file)
          IN  /\ ~pattern.threw
              /\ LET app == happened([arg EXCEPT
                                 !.palette = pattern.value.v.palette.v,
                                 !.colorOverrides = <<>>,
                                 !.hasLoaded = TRUE,
                                 !.loadedTessellation =
                                     [pieces |-> pattern.value.v.pieces.v,
                                      config |-> pattern.value.v.config.v,
                                      bounds |-> pattern.value.v.bounds.v]], "load")
                 IN  /\ config' = pattern.value.v.config.v
                     /\ arg' = app
                     /\ Render(app)
    /\ UNCHANGED ret

\* handleLoadPattern with a file that loadPattern refuses  (part_005:724-727)
LoadRefused ==
    /\ Idle
    /\ \E file \in PatternFiles : loadPattern(file).threw
    /\ arg' = happened(arg, "loadRefused")
    /\ UNCHANGED <<tessVars, pc, ret>>

\* handleRegenerateTessellation              (part_005:557-564)
Regenerate ==
    /\ Idle
    /\ LET app == happened(regenerated(arg), "regenerate")
       IN  /\ arg' = app
           /\ config' = config
           /\ Render(app)
    /\ UNCHANGED ret

\* The base tessellation of the app          (part_005:428-434)
baseTessellation ==
    IF arg.hasLoaded THEN arg.loadedTessellation
    ELSE [pieces |-> pieces, config |-> config, bounds |-> bounds]

\* handleColorChange for a piece of the pattern shown      (part_005:584-594)
ColorChange ==
    /\ Idle
    /\ \E k \in 1..Len(baseTessellation.pieces), colorIndex \in 0..(config.colors - 1) :
          LET id == baseTessellation.pieces[k].id
          IN  arg' = happened([arg EXCEPT !.colorOverrides =
                                  [x \in (DOMAIN @) \cup {id} |->
                                      IF x = id THEN colorIndex ELSE @[x]]],
                              "colorChange")
    /\ UNCHANGED <<tessVars, pc, ret>>

\* The configurations of AppConfigs split no cell, and in a row of unsplit
\* cells a piece has one coloured neighbour, so that generateTessellation
\* takes neither the split nor the fallback branch
AppNext ==
    \/ UpdateConfig \/ LoadPattern \/ LoadRefused \/ Regenerate \/ ColorChange
    \/ RowWidths \/ RowHeights \/ FullCell \/ AssignColor \/ Finish

SpecApp == AppInit /\ [][AppNext]_vars

\* A step of the handler named event
handled(event) == arg'.events = arg.events + 1 /\ arg'.event = event

\* While a pattern is loaded, a step other than a load or Regenerate leaves
\* the piece list and the bounds of the base tessellation as they are, and
\* no call of generateTessellation is under way
loadedStaysBase ==
    (arg.hasLoaded /\ ~handled("load") /\ ~handled("regenerate")) =>
        /\ arg'.hasLoaded
        /\ arg'.loadedTessellation.pieces = baseTessellation.pieces
        /\ arg'.loadedTessellation.bounds = baseTessellation.bounds
        /\ pc = "done" /\ pc' = "done"

\* A load makes the pieces and the bounds of the file the base tessellation
loadSetsBase ==
    handled("load") =>
        /\ arg'.hasLoaded
        /\ [pieces : {arg'.loadedTessellation.pieces}, bounds : {arg'.loadedTessellation.bounds}]
              \subseteq {[pieces |-> f.v.pieces.v, bounds |-> f.v.bounds.v] :
                            f \in {g \in PatternFiles : ~loadPattern(g).threw}}
        /\ pc' = "done"

\* Regenerate clears the loaded tessellation and the overrides and starts
\* generateTessellation with the config of the moment
regenerateClears ==
    handled("regenerate") =>
        /\ ~arg'.hasLoaded
        /\ arg'.colorOverrides = <<>>
        /\ config' = config
        /\ pc' = "widths" /\ pieces' = <<>>

\* With no pattern loaded, the base tessellation is the grid of the config of
\* the moment
generatedFromConfig ==
    (pc = "done" /\ ~arg.hasLoaded) =>
        /\ Len(baseTessellation.pieces) = config.rows * config.cols
        /\ baseTessellation.bounds =
              [width |-> RMul(R(config.cols), config.squareSize),
               height |-> RMul(R(config.rows), config.squareSize)]

\* C25: from a successful pattern load until the next Regenerate the base
\* tessellation is the loaded piece list and bounds and generateTessellation
\* is not used, whatever updateConfig calls happen in between; Regenerate
\* clears the loaded tessellation and all colour overrides, so that the next
\* base tessellation is generated from the current config.
C25_LoadedUntilRegenerate ==
    /\ [](generatedFromConfig)
    /\ [][loadedStaysBase /\ loadSetsBase /\ regenerateClears]_vars

\* A pattern of one piece is loaded, the config is set to two columns and a
\* piece recoloured, then Regenerate has produced the two pieces of the config
C25_Witness ==
    /\ pc = "done"
    /\ arg.event = "regenerate"
    /\ arg.events = 4
    /\ ~arg.hasLoaded
    /\ Len(arg.loadedTessellation.pieces) = 1
    /\ config.cols = 2
    /\ Len(pieces) = 2

(***************************************************************************)
(* The colour settings of the app on their own: updateConfig({colors}) and  *)
(* updateColorProbability from the default state.  The sliders give a       *)
(* number of colours from 2 to 5 and a weight from 0 to 100                 *)
(* (QuiltSidebar, part_001:123-129 and 151-158).  The renders between the   *)
(* handlers are left out: they read config and palette and set neither.     *)
(* A run ends after MaxColorEvents handlers, or where a weight is a         *)
(* fraction with a denominator above MaxWeightDenominator, beyond which the *)
(* exact weights leave the range of the integers.                           *)
(***************************************************************************)
MaxColorEvents == 4
MaxWeightDenominator == 20000

DEFAULT_COLORS == 3

\* part_005:375-388
DEFAULT_CONFIG ==
    [rows |-> 6,
     cols |-> 9,
     squareSize |-> R(50),
     colors |-> DEFAULT_COLORS,
     splitProbability |-> Frac(2, 5),
     seamAllowance |-> Frac(127, 20),
     offsetAmount |-> Frac(1, 2),
     widthVariation |-> Frac(3, 10),
     heightVariation |-> Frac(1, 5),
     splitAngleVariation |-> Frac(1, 2),
     sameColorProbability |-> Frac(1, 10),
     colorProbabilities |-> EqualProbabilities(DEFAULT_COLORS)]

ColorCounts == 2..5

SliderWeights == {R(0), R(1), R(50), R(100)}

\* newProbabilities[colorIndex] = value, for an index the array has or the
\* one after its end
withEntry(list, colorIndex, value) ==
    [k \in 1..(IF colorIndex + 1 > Len(list) THEN colorIndex + 1 ELSE Len(list)) |->
        IF k = colorIndex + 1 THEN value ELSE list[k]]

\* updateColorProbability: the next config and palette   (part_005:510-524)
updateColorProbability(prev, palette, colorIndex, value) ==
    LET newProbabilities == withEntry(prev.colorProbabilities, colorIndex, value)
        total == SumSeq(slice(newProbabilities, prev.colors))
        normalized == [k \in 1..Len(newProbabilities) |->
                          IF k <= prev.colors
                          THEN RMul(RDiv(newProbabilities[k], total), R(100))
                          ELSE newProbabilities[k]]
    IN  IF RGt(total, R(0))
        THEN updateConfig(prev, palette, [colorProbabilities |-> normalized])
        ELSE [config |-> prev, palette |-> palette]

\* The handlers the model goes on with
ColorsIdle ==
    /\ pc = "app"
    /\ arg.events < MaxColorEvents
    /\ \A k \in 1..Len(config.colorProbabilities) :
          config.colorProbabilities[k][2] <= MaxWeightDenominator

ColorsInit ==
    /\ config = DEFAULT_CONFIG
    /\ pc = "app"
    /\ widths = <<>>
    /\ heights = <<>>
    /\ row = 0
    /\ col = 0
    /\ cumulativeX = R(0)
    /\ cumulativeY = R(0)
    /\ pieceCol = 0
    /\ pieces = <<>>
    /\ i = 0
    /\ bounds = NoBounds
    /\ arg = [palette |-> generateInitialPalette(DEFAULT_COLORS),
              event |-> "none",
              events |-> 0]
    /\ ret = "none"

\* The slider of the number of colours      (part_001:123-129)
SetColors ==
    /\ ColorsIdle
    /\ \E n \in ColorCounts :
          LET next == updateConfig(config, arg.palette, [colors |-> n])
          IN  /\ config' = next.config
              /\ arg' = happened([arg EXCEPT !.palette = next.palette], "updateConfig")
    /\ UNCHANGED <<pc, widths, heights, row, col, cumulativeX, cumulativeY,
                   pieceCol, pieces, i, bounds, ret>>

\* The slider of the weight of one colour   (part_001:151-158)
SetColorProbability ==
    /\ ColorsIdle
    /\ \E colorIndex \in 0..(config.colors - 1), value \in SliderWeights :
          LET next == updateColorProbability(config, arg.palette, colorIndex, value)
          IN  /\ config' = next.config
              /\ arg' = happened([arg EXCEPT !.palette = next.palette],
                                  "updateColorProbability")
    /\ UNCHANGED <<pc, widths, heights, row, col, cumulativeX, cumulativeY,
                   pieceCol, pieces, i, bounds, ret>>

ColorsNext == SetColors \/ SetColorProbability

SpecColors == ColorsInit /\ [][ColorsNext]_vars

\* C26: after any sequence of updateConfig and updateColorProbability from the
\* default state, config.colorProbabilities and the palette have exactly
\* config.colors entries each, and the probabilities sum to 100 whenever their
\* total is positive.
C26_ColourArraysInStep ==
    pc = "app" =>
        /\ Len(config.colorProbabilities) = config.colors
        /\ Len(arg.palette) = config.colors
        /\ RGt(SumSeq(config.colorProbabilities), R(0)) =>
               SumSeq(config.colorProbabilities) = R(100)

\* Two colours were added and one weight was set to 0
C26_Witness ==
    /\ pc = "app"
    /\ arg.event = "updateColorProbability"
    /\ config.colors = 5
    /\ Len(config.colorProbabilities) = 5
    /\ config.colorProbabilities[1] = R(0)
    /\ SumSeq(config.colorProbabilities) = R(100)

\* C29: the ids of the pieces of one result of generateTessellation are
\* pairwise distinct, for every rows, cols and every pattern of split
\* decisions.
C29_PieceIdsDistinct ==
    pc = "done" =>
        \A j \in 1..Len(pieces), k \in 1..Len(pieces) :
            j # k => pieces[j].id # pieces[k].id

C29_Witness ==
    /\ pc = "done"
    /\ config.rows = 2
    /\ \E j \in 1..Len(pieces), k \in 1..Len(pieces) :
          /\ pieces[j].id[6] = "left"
          /\ pieces[k].id[6] = "right"
          /\ pieces[j].id[2] = pieces[k].id[2]
          /\ pieces[j].id[4] = pieces[k].id[4]
    /\ \E k \in 1..Len(pieces) : pieces[k].id[6] = "full"

(***************************************************************************)
(* sharesEdge on pairs of polygons: cells of the grid next to each other,   *)
(* cells that meet in a corner, halves of a split cell, a cell moved by the *)
(* tolerance and by half of it, and cells of width 0 and of width 0.005,    *)
(* which generateRowWidths yields for a draw at or near 0 with a            *)
(* widthVariation of 1.                                                     *)
(***************************************************************************)
EdgePolygons ==
    {createRectangle(R(0), R(0), R(50), R(50)),
     createRectangle(R(50), R(0), R(50), R(50)),
     createRectangle(R(50), R(50), R(50), R(50)),
     createRectangle(RAdd(R(50), tolerance), R(0), R(50), R(50)),
     createRectangle(RAdd(R(50), Frac(1, 200)), R(0), R(50), R(50)),
     createRectangle(R(50), R(0), R(0), R(50)),
     createRectangle(R(50), R(50), Frac(1, 200), R(50)),
     splitTriangles(createRectangle(R(0), R(0), R(50), R(50)), R(0))[1],
     splitTriangles(createRectangle(R(0), R(0), R(50), R(50)), R(0))[2],
     splitTriangles(createRectangle(R(0), R(0), R(50), R(50)), Frac(3, 4))[1],
     <<>>}

EdgeArgs == [fn : {"sharesEdge"}, poly1 : EdgePolygons, poly2 : EdgePolygons]

EdgeInit ==
    /\ IdleTess
    /\ pc = "call"
    /\ arg \in EdgeArgs
    /\ ret = "none"

CallSharesEdge ==
    /\ pc = "call"
    /\ arg.fn = "sharesEdge"
    /\ ret' = sharesEdge(arg.poly1, arg.poly2)
    /\ pc' = "returned"
    /\ UNCHANGED <<tessVars, arg>>

SpecEdge == EdgeInit /\ [][CallSharesEdge]_vars

\* sharesEdge(poly1, poly2) has returned ret
edgeReturned == pc = "returned" /\ arg.fn = "sharesEdge"

\* The vertex p lies less than 0.01 from some vertex of polygon in x and in y
nearSomeVertex(p, polygon) ==
    \E b \in 1..Len(polygon) :
        /\ RLt(RAbs(RSub(p.x, polygon[b].x)), Frac(1, 100))
        /\ RLt(RAbs(RSub(p.y, polygon[b].y)), Frac(1, 100))

\* At least two vertices of A each lie near some vertex of B
twoVerticesNear(A, B) ==
    \E a1 \in 1..Len(A), a2 \in 1..Len(A) :
        a1 # a2 /\ nearSomeVertex(A[a1], B) /\ nearSomeVertex(A[a2], B)

\* Any two vertices of the polygon are 0.02 or more apart in x or in y
verticesApart(polygon) ==
    \A a \in 1..Len(polygon), b \in 1..Len(polygon) :
        a # b => \/ RLe(Frac(2, 100), RAbs(RSub(polygon[a].x, polygon[b].x)))
                 \/ RLe(Frac(2, 100), RAbs(RSub(polygon[a].y, polygon[b].y)))

\* C28 as the claim states it: sharesEdge(A, B) = sharesEdge(B, A) for all
\* polygons A and B, where sharesEdge(A, B) holds iff at least two vertices of
\* A each lie within 0.01 in both coordinates of some vertex of B.
C28_SymmetricForAll ==
    edgeReturned =>
        /\ ret = sharesEdge(arg.poly2, arg.poly1)
        /\ ret = twoVerticesNear(arg.poly1, arg.poly2)

\* C28, amended: sharesEdge(A, B) = sharesEdge(B, A) for all polygons A and B
\* whose own vertices are pairwise at least 0.02 apart in x or in y, where
\* sharesEdge(A, B) holds, for all polygons, iff at least two vertices of A
\* each lie within 0.01 (less than 0.01) in both coordinates of some vertex
\* of B.
C28_SymmetricWhenVerticesApart ==
    edgeReturned =>
        /\ (verticesApart(arg.poly1) /\ verticesApart(arg.poly2)) =>
               ret = sharesEdge(arg.poly2, arg.poly1)
        /\ ret = twoVerticesNear(arg.poly1, arg.poly2)

\* Two different cells with their vertices apart that share an edge
C28_Witness ==
    /\ edgeReturned
    /\ arg.poly1 # arg.poly2
    /\ Len(arg.poly1) = 4
    /\ Len(arg.poly2) = 3
    /\ verticesApart(arg.poly1)
    /\ verticesApart(arg.poly2)
    /\ ret = TRUE
    /\ sharesEdge(arg.poly2, arg.poly1)

====
